---- MODULE Spec2Model ----
(***************************************************************************)
(* Model of script.js (Le Kebab du Campus): the ShoppingCart object, the   *)
(* cart widgets it renders into, the checkout fields and the localStorage  *)
(* entry 'kebab_cart'.                                                      *)
(*                                                                         *)
(* JavaScript strings that the code inspects or transforms are sequences   *)
(* of one-character strings, so that toLowerCase, replace(/\s+/g,'-'),     *)
(* trim and the validation patterns are computed character by character.   *)
(* JavaScript objects are records whose DOMAIN is the set of own keys.     *)
(* Numbers are integers: every price of the menu markup used here is a     *)
(* whole number of francs, on which double arithmetic is exact.            *)
(***************************************************************************)
EXTENDS Integers, Sequences, FiniteSets, TLC

(***************************************************************************)
(* Bounds of the model.                                                    *)
(***************************************************************************)
\* largest number of units (sum of the quantities) the cart is allowed to hold
MaxUnits == 3

\* the largest number of add-to-cart buttons that show their feedback at once
MaxTimers == 1

\* the largest sum of quantities the cart may hold when it is filled from the
\* menu
MaxMenuUnits == 1

\* the largest sum of quantities the cart may hold when it is filled from the
\* menu cards whose ids collide
MaxTwinUnits == 2

(***************************************************************************)
(* Characters and strings.                                                 *)
(***************************************************************************)
UpperChars ==
  <<"A","B","C","D","E","F","G","H","I","J","K","L","M",
    "N","O","P","Q","R","S","T","U","V","W","X","Y","Z">>

LowerChars ==
  <<"a","b","c","d","e","f","g","h","i","j","k","l","m",
    "n","o","p","q","r","s","t","u","v","w","x","y","z">>

\* the accented letters of the range À-ÿ that the model's inputs use
AccentedChars == {"é", "è", "ç", "ï"}

DigitChars == <<"0","1","2","3","4","5","6","7","8","9">>

\* \s of a JavaScript regular expression (the members the inputs use)
IsSpace(c) == c \in {" ", "\t", "\n"}

IsDigit(c) == \E i \in DOMAIN DigitChars : DigitChars[i] = c

IsLetter(c) ==
  \/ \E i \in DOMAIN UpperChars : UpperChars[i] = c
  \/ \E i \in DOMAIN LowerChars : LowerChars[i] = c
  \/ c \in AccentedChars

\* String.prototype.toLowerCase on one character
LowerChar(c) ==
  IF \E i \in DOMAIN UpperChars : UpperChars[i] = c
  THEN LowerChars[CHOOSE i \in DOMAIN UpperChars : UpperChars[i] = c]
  ELSE c

ToLowerCase(s) == [i \in DOMAIN s |-> LowerChar(s[i])]

RECURSIVE DropSpaces(_)
DropSpaces(s) ==
  IF s # <<>> /\ IsSpace(Head(s)) THEN DropSpaces(Tail(s)) ELSE s

\* s.replace(/\s+/g, '-'): every maximal run of whitespace becomes one hyphen
RECURSIVE ReplaceSpaces(_)
ReplaceSpaces(s) ==
  IF s = <<>> THEN <<>>
  ELSE IF IsSpace(Head(s)) THEN <<"-">> \o ReplaceSpaces(DropSpaces(Tail(s)))
  ELSE <<Head(s)>> \o ReplaceSpaces(Tail(s))

RECURSIVE DropTrailingSpaces(_)
DropTrailingSpaces(s) ==
  IF s # <<>> /\ IsSpace(s[Len(s)])
  THEN DropTrailingSpaces(SubSeq(s, 1, Len(s) - 1))
  ELSE s

\* String.prototype.trim
Trim(s) == DropTrailingSpaces(DropSpaces(s))

\* Array.prototype.join of strings
RECURSIVE Join(_, _)
Join(strs, sep) ==
  IF strs = <<>> THEN <<>>
  ELSE IF Len(strs) = 1 THEN strs[1]
  ELSE strs[1] \o sep \o Join(Tail(strs), sep)

DigitValue(c) == (CHOOSE i \in DOMAIN DigitChars : DigitChars[i] = c) - 1

RECURSIVE DigitsValue(_, _)
DigitsValue(s, acc) ==
  IF s = <<>> \/ ~IsDigit(Head(s)) THEN acc
  ELSE DigitsValue(Tail(s), 10 * acc + DigitValue(Head(s)))

\* parseFloat on the price texts of the menu markup: the decimal digits up to
\* the point; the fraction digits of these texts are zeros
ParseFloat(s) == DigitsValue(s, 0)

RECURSIVE NatToString(_)
NatToString(n) ==
  IF n < 10 THEN <<DigitChars[n + 1]>>
  ELSE NatToString(n \div 10) \o <<DigitChars[(n % 10) + 1]>>

\* the decimal text of a whole number
NumberToString(n) ==
  IF n < 0 THEN <<"-">> \o NatToString(0 - n) ELSE NatToString(n)

\* Number.prototype.toFixed(2) on a whole number
ToFixed2(n) == NumberToString(n) \o <<".", "0", "0">>

(***************************************************************************)
(* Page markup read by the code: the .menu-item elements with their data   *)
(* attributes, and the options of the payment-method select.               *)
(***************************************************************************)
\* .menu-item elements: dataset.name, dataset.price, dataset.category,
\* dataset.hasOptions.  The last two are the cards of a promotions section that
\* repeat cards 2 and 3 in another spelling.
MenuItems ==
  << [name |-> <<"K","e","b","a","b">>, price |-> <<"1","0",".","0","0">>,
      category |-> "kebabs", hasOptions |-> FALSE],
     [name |-> <<"I","c","e"," ","T","e","a">>, price |-> <<"6">>,
      category |-> "boissons", hasOptions |-> FALSE],
     [name |-> <<"B","o","x">>, price |-> <<"5",".","0","0">>,
      category |-> "menus", hasOptions |-> TRUE],
     [name |-> <<"D","u","o">>, price |-> <<"9">>,
      category |-> "menus", hasOptions |-> TRUE],
     [name |-> <<"I","C","E"," "," ","T","E","A">>, price |-> <<"6">>,
      category |-> "promos", hasOptions |-> FALSE],
     [name |-> <<"B","o","x">>, price |-> <<"5",".","0","0">>,
      category |-> "promos", hasOptions |-> TRUE],
     [name |-> <<"M","i","x">>, price |-> <<"8">>,
      category |-> "promos", hasOptions |-> TRUE] >>

\* the .menu-option groups of each menu item: dataset.optionKey,
\* dataset.optionLabel, dataset.selectionType, dataset.max (<<>> when the
\* attribute is missing), dataset.required and the dataset.value of each
\* .menu-option-button
MenuOptionGroups ==
  << <<>>,
     <<>>,
     << [optionKey |-> <<"s","a","u","c","e">>,
         optionLabel |-> <<"S","a","u","c","e">>,
         selectionType |-> "single", max |-> <<>>, required |-> "",
         values |-> << <<"B","l","a","n","c","h","e">>,
                       <<"P","i","q","u","a","n","t","e">> >>],
        [optionKey |-> <<"e","x","t","r","a">>,
         optionLabel |-> <<"E","x","t","r","a">>,
         selectionType |-> "multiple", max |-> <<"1">>, required |-> "false",
         values |-> << <<"F","e","t","a">>, <<"O","e","u","f">> >>] >>,
     <<>>,
     <<>>,
     << [optionKey |-> <<"S","a","u","c","e">>,
         optionLabel |-> <<"S","a","u","c","e"," ","?">>,
         selectionType |-> "", max |-> <<>>, required |-> "true",
         values |-> << <<"B","L","A","N","C","H","E">> >>] >>,
     << [optionKey |-> <<"e","x","t","r","a">>,
         optionLabel |-> <<"E","x","t","r","a","s">>,
         selectionType |-> "multiple", max |-> <<"2">>, required |-> "false",
         values |-> << <<"F","e","t","a">>, <<"O","e","u","f">>,
                       <<"O","l","i","v","e","s">> >>],
        [optionKey |-> <<"p","a","i","n">>,
         optionLabel |-> <<"P","a","i","n">>,
         selectionType |-> "single", max |-> <<"2">>, required |-> "false",
         values |-> << <<"P","i","t","a">>, <<"D","u","r","u","m">> >>] >> >>

\* the select[data-required="true"] elements of each menu item:
\* dataset.optionKey, dataset.optionLabel and the value and text of each
\* <option>, the empty choice first
MenuSelects ==
  << <<>>,
     <<>>,
     <<>>,
     << [optionKey |-> <<"p","l","a","t">>,
         optionLabel |-> <<"P","l","a","t">>,
         choices |-> << [value |-> <<>>, text |-> <<"C","h","o","i","s","i","r">>],
                        [value |-> <<"k">>, text |-> <<" ","K","e","b","a","b"," ">>] >>],
        [optionKey |-> <<"b","o","i","s","s","o","n">>,
         optionLabel |-> <<"B","o","i","s","s","o","n">>,
         choices |-> << [value |-> <<>>, text |-> <<"C","h","o","i","s","i","r">>],
                        [value |-> <<"c">>, text |-> <<"C","o","l","a">>] >>] >>,
     <<>>,
     <<>>,
     <<>> >>

\* what collectMenuItemOptions returns as options for menu item m when button b
\* of its (single, required) group is selected: one {key, label, value}
CollectedOptions(m, b) ==
  LET g == MenuOptionGroups[m][1] IN
  << [key |-> g.optionKey, label |-> g.optionLabel, value |-> g.values[b]] >>

\* <option> values of the payment-method select, the placeholder first
PaymentOptions == << <<>>, <<"c","a","s","h">>, <<"c","a","r","d">>, <<"t","w","i","n","t">> >>

MIN_ORDER_TOTAL == 15

(***************************************************************************)
(* Item identity.                                                          *)
(***************************************************************************)
\* `${a}-${b}`.toLowerCase().replace(/\s+/g, '-')
Normalized(a, b) == ReplaceSpaces(ToLowerCase(a \o <<"-">> \o b))

\* generateItemId without toLowerCase
generateItemIdKeepingCase(menuItem, options) ==
  LET baseId == ReplaceSpaces(menuItem.name \o <<"-">> \o menuItem.price) IN
  IF Len(options) = 0 THEN baseId
  ELSE LET optionId ==
             Join([i \in DOMAIN options |->
                     ReplaceSpaces(options[i].key \o <<"-">> \o options[i].value)],
                  <<"-">>)
       IN baseId \o <<"-">> \o optionId

generateItemId(menuItem, options) ==
  LET baseId == Normalized(menuItem.name, menuItem.price) IN
  IF Len(options) = 0 THEN baseId
  ELSE LET optionId ==
             Join([i \in DOMAIN options |-> Normalized(options[i].key, options[i].value)],
                  <<"-">>)
       IN baseId \o <<"-">> \o optionId

\* the item object the add-to-cart click handler builds for menu item m and
\* the collected options
BuildItem(m, options) ==
  LET base == [id |-> generateItemId(MenuItems[m], options),
               name |-> MenuItems[m].name,
               price |-> ParseFloat(MenuItems[m].price),
               category |-> MenuItems[m].category]
  IN IF Len(options) > 0 THEN [options |-> options] @@ base ELSE base

\* the items handed to addItem: each menu item without options, and the menu
\* item with options under its first sauce
OrderItems ==
  { BuildItem(m, IF MenuItems[m].hasOptions THEN CollectedOptions(m, 1) ELSE <<>>) :
      m \in 1 .. 3 }

OrderIds == { it.id : it \in OrderItems }

(***************************************************************************)
(* Validation patterns (VALIDATION_PATTERNS, CHECKOUT_PATTERNS).           *)
(***************************************************************************)
\* /^[a-zA-ZÀ-ÿ\s'-]{2,50}$/.test(s)
NamePatternTest(s) ==
  /\ Len(s) >= 2
  /\ Len(s) <= 50
  /\ \A i \in DOMAIN s : IsLetter(s[i]) \/ IsSpace(s[i]) \/ s[i] \in {"'", "-"}

\* a pattern is a sequence of atoms: "d" is \d, "s?" is \s?
RECURSIVE MatchAtoms(_, _)
MatchAtoms(s, atoms) ==
  IF atoms = <<>> THEN s = <<>>
  ELSE IF Head(atoms) = "d"
       THEN s # <<>> /\ IsDigit(Head(s)) /\ MatchAtoms(Tail(s), Tail(atoms))
       ELSE \/ s # <<>> /\ IsSpace(Head(s)) /\ MatchAtoms(Tail(s), Tail(atoms))
            \/ MatchAtoms(s, Tail(atoms))

\* /^\d{3}(?:\s?\d{3})(?:\s?\d{2}){2}$/.test(s)
PhonePatternTest(s) ==
  MatchAtoms(s, <<"d","d","d", "s?","d","d","d", "s?","d","d", "s?","d","d">>)

(***************************************************************************)
(* localStorage and JSON.                                                  *)
(*                                                                         *)
(* The value under 'kebab_cart' is [kind, val]: kind "absent" (getItem     *)
(* returns null), "unparsable" (text JSON.parse rejects), "nonarray" (text *)
(* of a JSON value that is no array), "unreadable" (getItem throws) or     *)
(* "array" (text of an array, val its elements).  Every value the cart holds is a string, a whole number or   *)
(* an array or object of these, which JSON.stringify writes out key by key *)
(* and JSON.parse reads back unchanged.                                    *)
(***************************************************************************)
StorageAbsent == [kind |-> "absent", val |-> <<>>]
StorageUnparsable == [kind |-> "unparsable", val |-> <<>>]
StorageNonArray == [kind |-> "nonarray", val |-> <<>>]
\* localStorage.getItem itself throws (storage access denied)
StorageUnreadable == [kind |-> "unreadable", val |-> <<>>]

\* a null element of a parsed array: it has no property, so that the spread
\* ...item copies nothing and item?.options is undefined
JsonNull == <<>>

JSONStringify(list) == [kind |-> "array", val |-> list]

\* loadCartFromStorage giving every restored entry an empty options array
loadCartDroppingOptions(saved) ==
  IF saved.kind # "array" THEN <<>>
  ELSE [i \in DOMAIN saved.val |-> [options |-> <<>>] @@ saved.val[i]]

\* loadCartFromStorage whose early returns and catch give [null] for []
loadCartReturningNull(saved) ==
  IF saved.kind # "array" THEN << JsonNull >>
  ELSE [i \in DOMAIN saved.val |->
          IF "options" \in DOMAIN saved.val[i]
          THEN saved.val[i]
          ELSE [options |-> <<>>] @@ saved.val[i]]

loadCartFromStorage(saved) ==
  IF saved.kind = "unreadable" THEN <<>>
  ELSE IF saved.kind = "absent" THEN <<>>
  ELSE IF saved.kind = "unparsable" THEN <<>>
  ELSE IF saved.kind # "array" THEN <<>>
  ELSE [i \in DOMAIN saved.val |->
          IF "options" \in DOMAIN saved.val[i]
          THEN saved.val[i]
          ELSE [options |-> <<>>] @@ saved.val[i]]

(***************************************************************************)
(* Totals.                                                                 *)
(***************************************************************************)
\* list.reduce((total, item) => total + f(item), 0), from entry i on
RECURSIVE ReduceTotal(_, _, _)
ReduceTotal(list, i, total) ==
  IF i > Len(list) THEN total
  ELSE ReduceTotal(list, i + 1, total + list[i].price * list[i].quantity)

\* getTotal with the quantity left out of the product
RECURSIVE ReducePrices(_, _, _)
ReducePrices(list, i, total) ==
  IF i > Len(list) THEN total
  ELSE ReducePrices(list, i + 1, total + list[i].price)

getTotalOfPrices(list) == ReducePrices(list, 1, 0)

getTotal(list) == ReduceTotal(list, 1, 0)

RECURSIVE ReduceCount(_, _, _)
ReduceCount(list, i, total) ==
  IF i > Len(list) THEN total
  ELSE ReduceCount(list, i + 1, total + list[i].quantity)

\* getTotalItems counting the entries instead of their quantities
getTotalEntries(list) == Len(list)

getTotalItems(list) == ReduceCount(list, 1, 0)

(***************************************************************************)
(* State.                                                                  *)
(***************************************************************************)
VARIABLES
  items,               \* ShoppingCart.items
  isCartOpen,          \* ShoppingCart.isCartOpen
  storage,             \* localStorage value under 'kebab_cart'
  lastWrite,           \* outcome of the latest localStorage.setItem of this page
                       \* load: "none" (no call yet), "ok" or "threw"
  storageWritable,     \* whether localStorage.setItem returns (or throws:
                       \* quota exceeded, storage disabled)
  cartContentDisplay,  \* cartContent.style.display
  cartCountText,       \* cartCount.textContent
  cartRows,            \* the .cart-item children of cartItems
  cartEmptyDisplay,    \* cartEmpty.style.display
  cartSummaryDisplay,  \* cartSummary.style.display
  cartTotalText,       \* cartTotal.textContent
  fields,              \* checkoutFields: value and checkout-error class of each
  dialog,              \* alert and confirm calls of the latest handler of the
                       \* cart
  calls,               \* the event of the latest handler of the cart or of
                       \* the navigation and, in order, the methods of the
                       \* cart it called
  uncaught,            \* the error that ended init() of this page load, if
                       \* one did: "none" or "TypeError"
  menu,                \* the option controls of each .menu-item: selected
                       \* buttons, chosen <option>s, error and visible classes
  focus,               \* the element the latest focus() call or focus event
                       \* was about, <<>> when there was none
  addButtons,          \* each .btn-add-to-cart: textContent, disabled, adding
  timers,              \* the pending setTimeout callbacks of
                       \* showAddToCartFeedback
  nav,                 \* the mobile menu: class active of navMenu and of
                       \* navToggle, document.body.style.overflow, class
                       \* header--menu-open of header
  activeLinks,         \* the .nav-link elements that carry the class active
  headerContrast,      \* class header--contrast of header
  absent,              \* the ids of the elements the code looks up that the
                       \* page does not have
  thrown,              \* the error a listener of the latest event threw, if
                       \* one did: "none" or "TypeError"
  bounce,              \* class cart-bounce: the elements that carry it, the
                       \* elements with a pending setTimeout callback that
                       \* removes it, and whether cartCount.parentElement is
                       \* cartToggle
  contact,             \* the contact form: value, classes, error text and
                       \* aria-invalid of each field, the submit button, the
                       \* pending timers, class show of formSuccess
  now                  \* Date.now()

vars ==
  << items, isCartOpen, storage, lastWrite, storageWritable, cartContentDisplay,
     cartCountText, cartRows, cartEmptyDisplay, cartSummaryDisplay,
     cartTotalText, fields, dialog, calls, uncaught, menu, focus, addButtons,
     timers, nav, activeLinks, headerContrast, absent, thrown, bounce, contact,
     now >>

\* everything the cart's methods read and write, as one record
World ==
  [ items |-> items, isCartOpen |-> isCartOpen, storage |-> storage,
    lastWrite |-> lastWrite, storageWritable |-> storageWritable,
    cartContentDisplay |-> cartContentDisplay, cartCountText |-> cartCountText,
    cartRows |-> cartRows, cartEmptyDisplay |-> cartEmptyDisplay,
    cartSummaryDisplay |-> cartSummaryDisplay, cartTotalText |-> cartTotalText,
    fields |-> fields, dialog |-> dialog, calls |-> calls, uncaught |-> uncaught,
    menu |-> menu, focus |-> focus, addButtons |-> addButtons, timers |-> timers,
    nav |-> nav, activeLinks |-> activeLinks, headerContrast |-> headerContrast,
    contact |-> contact, absent |-> absent, thrown |-> thrown,
    bounce |-> bounce ]

Becomes(w) ==
  /\ contact' = w.contact
  /\ items' = w.items
  /\ isCartOpen' = w.isCartOpen
  /\ storage' = w.storage
  /\ lastWrite' = w.lastWrite
  /\ storageWritable' = w.storageWritable
  /\ cartContentDisplay' = w.cartContentDisplay
  /\ cartCountText' = w.cartCountText
  /\ cartRows' = w.cartRows
  /\ cartEmptyDisplay' = w.cartEmptyDisplay
  /\ cartSummaryDisplay' = w.cartSummaryDisplay
  /\ cartTotalText' = w.cartTotalText
  /\ fields' = w.fields
  /\ dialog' = w.dialog
  /\ calls' = w.calls
  /\ uncaught' = w.uncaught
  /\ menu' = w.menu
  /\ focus' = w.focus
  /\ addButtons' = w.addButtons
  /\ timers' = w.timers
  /\ nav' = w.nav
  /\ activeLinks' = w.activeLinks
  /\ headerContrast' = w.headerContrast
  /\ absent' = w.absent
  /\ thrown' = w.thrown
  /\ bounce' = w.bounce

\* the state in which everything is as in w
Is(w) ==
  /\ items = w.items
  /\ isCartOpen = w.isCartOpen
  /\ storage = w.storage
  /\ lastWrite = w.lastWrite
  /\ storageWritable = w.storageWritable
  /\ cartContentDisplay = w.cartContentDisplay
  /\ cartCountText = w.cartCountText
  /\ cartRows = w.cartRows
  /\ cartEmptyDisplay = w.cartEmptyDisplay
  /\ cartSummaryDisplay = w.cartSummaryDisplay
  /\ cartTotalText = w.cartTotalText
  /\ fields = w.fields
  /\ dialog = w.dialog
  /\ calls = w.calls
  /\ uncaught = w.uncaught
  /\ menu = w.menu
  /\ focus = w.focus
  /\ addButtons = w.addButtons
  /\ timers = w.timers
  /\ nav = w.nav
  /\ activeLinks = w.activeLinks
  /\ headerContrast = w.headerContrast
  /\ absent = w.absent
  /\ thrown = w.thrown
  /\ bounce = w.bounce
  /\ contact = w.contact

CheckoutKeys == <<"lastName", "firstName", "address", "city", "phone", "paymentMethod">>

CheckoutKeySet == { CheckoutKeys[i] : i \in DOMAIN CheckoutKeys }

NoDialog == [alerts |-> <<>>, confirmAsked |-> FALSE]

\* method is entered
Called(w, method) == [w EXCEPT !.calls = Append(@, method)]

\* document.getElementById(id) has found an element
Has(w, id) == id \notin w.absent

\* a property of null is read: the listener ends with a TypeError
Throw(w) == [w EXCEPT !.thrown = "TypeError"]

\* the id of each element of checkoutFields
CheckoutIds ==
  [ lastName |-> "checkoutLastName", firstName |-> "checkoutFirstName",
    address |-> "checkoutAddress", city |-> "checkoutCity",
    phone |-> "checkoutPhone", paymentMethod |-> "checkoutPaymentMethod" ]

Min(S) == CHOOSE i \in S : \A j \in S : i <= j

(***************************************************************************)
(* Navigation: the mobile menu and the active link.                        *)
(***************************************************************************)
\* the mobile menu as the markup has it, and as closeMobileMenu leaves it
NavClosed ==
  [menuActive |-> FALSE, toggleActive |-> FALSE, overflow |-> "",
   headerMenuOpen |-> FALSE]

\* the href of each .nav-link, without the "#", in document order; the last
\* one is a link of the footer, outside navMenu
NavLinks == <<"accueil", "menu", "contact", "menu">>

\* navMenu.contains(link)
LinkInsideMenu(l) == l < Len(NavLinks)

\* the id of each section[id]; no link leads to "promos"
Sections == {"accueil", "menu", "promos", "contact"}

\* toggleMobileMenu that leaves the header alone
toggleMobileMenuLeavingHeader(w) ==
  LET active == ~w.nav.menuActive IN
  [w EXCEPT !.nav = [@ EXCEPT !.menuActive = active,
                              !.toggleActive = ~w.nav.toggleActive,
                              !.overflow = IF active THEN "hidden" ELSE ""]]

\* navMenu.classList and navToggle.classList are read without a test
toggleMobileMenu(w) ==
  LET active == ~w.nav.menuActive IN
  IF ~Has(w, "navMenu") THEN Throw(w)
  ELSE IF ~Has(w, "navToggle")
       THEN Throw([w EXCEPT !.nav.menuActive = active])
  ELSE [w EXCEPT !.nav = [menuActive |-> active,
                          toggleActive |-> ~w.nav.toggleActive,
                          overflow |-> IF active THEN "hidden" ELSE "",
                          headerMenuOpen |-> IF Has(w, "header") THEN active ELSE @.headerMenuOpen]]

closeMobileMenu(w) ==
  IF ~Has(w, "navMenu") THEN Throw(w)
  ELSE IF ~Has(w, "navToggle")
       THEN Throw([w EXCEPT !.nav.menuActive = FALSE])
  ELSE [w EXCEPT !.nav = [menuActive |-> FALSE, toggleActive |-> FALSE,
                          overflow |-> "",
                          headerMenuOpen |-> IF Has(w, "header") THEN FALSE ELSE @.headerMenuOpen]]

\* the click listener of document without the test of the trigger
onDocumentClickIgnoringToggle(w, isClickInsideMenu, isClickOnToggle) ==
  IF w.nav.menuActive /\ ~isClickInsideMenu THEN closeMobileMenu(w) ELSE w

\* the click listener of document; it runs after the listeners of the
\* element that was clicked
onDocumentClick(w, isClickInsideMenu, isClickOnToggle) ==
  IF ~Has(w, "navMenu") \/ ~Has(w, "navToggle") THEN Throw(w)
  ELSE IF w.nav.menuActive /\ ~isClickInsideMenu /\ ~isClickOnToggle
  THEN closeMobileMenu(w)
  ELSE w

\* a click on an element outside navMenu and navToggle bubbles to document
\* once the listeners of the element have run
Bubble(w) == onDocumentClick(w, FALSE, FALSE)

\* document.querySelector(`.nav-link[href="#${id}"]`): the first link with
\* that href, 0 when there is none
ActiveLink(id) ==
  IF \E l \in DOMAIN NavLinks : NavLinks[l] = id
  THEN Min({ l \in DOMAIN NavLinks : NavLinks[l] = id })
  ELSE 0

\* observerCallback(entries) of initScrollObserver
RECURSIVE observerCallback(_, _)
observerCallback(w, entries) ==
  IF entries = <<>> THEN w
  ELSE LET entry == Head(entries)
           activeLink == ActiveLink(entry.target)
       IN observerCallback(
            IF entry.isIntersecting
            THEN [w EXCEPT !.activeLinks = IF activeLink # 0 THEN {activeLink} ELSE {}]
            ELSE w,
            Tail(entries))

\* the callback of the observer of initHeaderContrastObserver
contrastCallback(w, isIntersecting) == [w EXCEPT !.headerContrast = ~isIntersecting]

(***************************************************************************)
(* The class cart-bounce.  Each handler that sets it hands setTimeout a    *)
(* callback that removes it from the same element 300 ms later.  The       *)
(* callbacks of one element all do the same, so the model keeps, instead   *)
(* of their number, the elements that have at least one pending.           *)
(***************************************************************************)
\* no element carries the class and no callback is pending; badgeInToggle:
\* cartCount is a child of cartToggle
NoBounce(badgeInToggle) ==
  [marked |-> {}, pending |-> {}, badgeInToggle |-> badgeInToggle]

\* the element a name stands for: cartToggle, or cartCount.parentElement
BounceElement(w, element) ==
  IF element = "badgeParent" /\ w.bounce.badgeInToggle THEN "cartToggle" ELSE element

\* classList.add('cart-bounce') and setTimeout(remove, 300)
addBounce(w, element) ==
  LET e == BounceElement(w, element) IN
  [w EXCEPT !.bounce.marked = @ \cup {e}, !.bounce.pending = @ \cup {e}]

\* classList.toggle('cart-bounce') and setTimeout(remove, 300)
toggleBounce(w, element) ==
  LET e == BounceElement(w, element) IN
  [w EXCEPT !.bounce.marked = IF e \in @ THEN @ \ {e} ELSE @ \cup {e},
            !.bounce.pending = @ \cup {e}]

\* a callback of element e runs: classList.remove('cart-bounce'); last: no
\* other callback of e is pending
bounceTimeout(w, e, last) ==
  [w EXCEPT !.bounce.marked = @ \ {e},
            !.bounce.pending = IF last THEN @ \ {e} ELSE @]

(***************************************************************************)
(* Rendering (updateCartDisplay and the methods it calls).                 *)
(***************************************************************************)
CurrencyText(n) == ToFixed2(n) \o <<" ", "C", "H", "F">>

\* the .cart-item element of one entry; its three listeners keep the entry
\* itself (the row at position i holds the entry at position i of the list
\* that was rendered)
createCartItemElement(item) ==
  [ itemId |-> item.id,
    name |-> item.name,
    options |-> IF "options" \in DOMAIN item THEN item.options ELSE <<>>,
    priceText |-> CurrencyText(item.price),
    quantityDisplay |-> item.quantity,
    itemTotal |-> CurrencyText(item.price * item.quantity) ]

\* the text of getTotalItems(): a sum over an entry without quantity is NaN
TotalItemsText(list) ==
  IF \A i \in DOMAIN list : "quantity" \in DOMAIN list[i]
  THEN NumberToString(getTotalItems(list))
  ELSE <<"N", "a", "N">>

\* totalItems > 0, which is false for NaN
HasUnits(list) ==
  /\ \A i \in DOMAIN list : "quantity" \in DOMAIN list[i]
  /\ getTotalItems(list) > 0

updateCartCountWithoutTimer(w) ==
  IF ~Has(w, "cartCount") THEN w
  ELSE LET counted == [w EXCEPT !.cartCountText = TotalItemsText(w.items)] IN
       IF HasUnits(w.items)
       THEN [counted EXCEPT
               !.bounce.marked = @ \cup {BounceElement(w, "badgeParent")}]
       ELSE counted

updateCartCount(w) ==
  IF ~Has(w, "cartCount") THEN w
  ELSE LET counted == [w EXCEPT !.cartCountText = TotalItemsText(w.items)] IN
       IF HasUnits(w.items) THEN addBounce(counted, "badgeParent") ELSE counted

\* item.price.toFixed(2) is a TypeError for an entry without price
ThrowingEntries(list) == { i \in DOMAIN list : "price" \notin DOMAIN list[i] }

updateCartItemsReversed(w) ==
  [w EXCEPT
     !.cartRows = [i \in DOMAIN w.items |->
                     createCartItemElement(w.items[Len(w.items) + 1 - i])],
     !.cartEmptyDisplay = IF Len(w.items) = 0 THEN "block" ELSE "none"]

\* the rows are appended one by one; createCartItemElement throws at the first
\* entry without price, and the rows appended before it stay
updateCartItems(w) ==
  IF ~Has(w, "cartItems") \/ ~Has(w, "cartEmpty") THEN w
  ELSE IF ThrowingEntries(w.items) = {}
  THEN [w EXCEPT
          !.cartRows = [i \in DOMAIN w.items |-> createCartItemElement(w.items[i])],
          !.cartEmptyDisplay = IF Len(w.items) = 0 THEN "block" ELSE "none"]
  ELSE [w EXCEPT
          !.cartRows = [i \in 1 .. (Min(ThrowingEntries(w.items)) - 1) |->
                          createCartItemElement(w.items[i])],
          !.cartEmptyDisplay = "none",
          !.uncaught = "TypeError"]

updateCartSummary(w) ==
  IF ~Has(w, "cartSummary") \/ ~Has(w, "cartTotal") THEN w
  ELSE IF Len(w.items) = 0
  THEN [w EXCEPT !.cartSummaryDisplay = "none"]
  ELSE [w EXCEPT !.cartSummaryDisplay = "block",
                 !.cartTotalText = CurrencyText(getTotal(w.items))]

\* an error thrown by updateCartItems leaves updateCartDisplay at once
updateCartDisplay(w) ==
  LET rendered == updateCartItems(updateCartCount(w)) IN
  IF rendered.uncaught # "none" THEN rendered ELSE updateCartSummary(rendered)

toggleCart(w) ==
  LET toggled ==
        [Called(w, "toggleCart") EXCEPT
           !.isCartOpen = ~w.isCartOpen,
           !.cartContentDisplay = IF ~Has(w, "cartContent") THEN @
                                  ELSE IF ~w.isCartOpen THEN "block" ELSE "none"]
  IN IF Has(w, "cartToggle") THEN toggleBounce(toggled, "cartToggle") ELSE toggled

(***************************************************************************)
(* Persistence.                                                            *)
(***************************************************************************)
saveCartToStorageUncaught(w) ==
  IF w.storageWritable
  THEN [Called(w, "saveCartToStorage") EXCEPT
          !.storage = JSONStringify(w.items), !.lastWrite = "ok"]
  ELSE Throw([Called(w, "saveCartToStorage") EXCEPT !.lastWrite = "threw"])

\* setItem throws when the storage is not writable; the catch logs a warning
saveCartToStorage(w) ==
  IF w.storageWritable
  THEN [Called(w, "saveCartToStorage") EXCEPT
          !.storage = JSONStringify(w.items), !.lastWrite = "ok"]
  ELSE [Called(w, "saveCartToStorage") EXCEPT !.lastWrite = "threw"]

(***************************************************************************)
(* Option controls of the menu items.                                      *)
(***************************************************************************)
\* textContent of a .btn-add-to-cart in the markup, and while it shows the
\* feedback
ButtonLabel == <<"A","j","o","u","t","e","r">>
AddedLabel == <<"A","j","o","u","t","é"," ","!">>

DefaultHint == [kind |-> "default", labels |-> <<>>]

\* the option controls of menu item m as the markup has them: the buttons
\* of its last group in preselected carry menu-option-button--selected, every
\* select shows its first <option>, nothing carries an error class
MarkupOptions(m, preselected) ==
  [ selected |-> [g \in DOMAIN MenuOptionGroups[m] |->
                    IF g = Len(MenuOptionGroups[m]) THEN preselected ELSE {}],
    groupError |-> [g \in DOMAIN MenuOptionGroups[m] |-> FALSE],
    selectedIndex |-> [k \in DOMAIN MenuSelects[m] |-> 0],
    selectError |-> [k \in DOMAIN MenuSelects[m] |-> FALSE],
    visible |-> FALSE,
    wrapperError |-> FALSE,
    hint |-> DefaultHint,
    hintError |-> FALSE ]

\* dataset.selectionType || 'single'
SelectionType(group) ==
  IF group.selectionType = "" THEN "single" ELSE group.selectionType

\* max = parseInt(dataset.max, 10); Number.isFinite(max) && max > 0 ? max :
\* (selectionType === 'multiple' ? buttons.length : 1)
MaxSelections(group) ==
  IF group.max # <<>> /\ IsDigit(Head(group.max)) /\ DigitsValue(group.max, 0) > 0
  THEN DigitsValue(group.max, 0)
  ELSE IF SelectionType(group) = "multiple" THEN Len(group.values) ELSE 1

\* dataset.required !== 'false'
Required(group) == group.required # "false"

\* what the forEach of collectMenuItemOptions finds in one group
GroupStatus(group, selectedButtons) ==
  IF Cardinality(selectedButtons) > MaxSelections(group) THEN "over"
  ELSE IF Required(group) /\ selectedButtons = {} THEN "missing"
  ELSE "ok"

\* the dataset.value of the selected buttons, in the order of the buttons
SelectedValues(group, selectedButtons) ==
  LET buttons == SelectSeq([b \in DOMAIN group.values |-> b],
                           LAMBDA b : b \in selectedButtons)
  IN [i \in DOMAIN buttons |-> group.values[buttons[i]]]

\* the option a group with selected buttons contributes
GroupOption(group, selectedButtons) ==
  LET values == SelectedValues(group, selectedButtons) IN
  [ key |-> group.optionKey,
    label |-> group.optionLabel,
    value |-> IF SelectionType(group) = "multiple"
              THEN Join(values, <<",", " ">>)
              ELSE values[1] ]

\* result.options after the forEach over groups g, g+1, ...
RECURSIVE GroupOptions(_, _, _)
GroupOptions(groups, selected, g) ==
  IF g > Len(groups) THEN <<>>
  ELSE (IF GroupStatus(groups[g], selected[g]) = "ok" /\ selected[g] # {}
        THEN << GroupOption(groups[g], selected[g]) >>
        ELSE <<>>) \o GroupOptions(groups, selected, g + 1)

\* select.value
SelectValue(select, index) == select.choices[index + 1].value

\* the option a required select contributes
SelectOption(select, index) ==
  [ key |-> select.optionKey,
    label |-> select.optionLabel,
    value |-> Trim(select.choices[index + 1].text) ]

\* the groups, or selects, collectMenuItemOptions marks with an error class
InvalidGroups(m, state) ==
  { g \in DOMAIN MenuOptionGroups[m] :
      GroupStatus(MenuOptionGroups[m][g], state.selected[g]) # "ok" }

EmptySelects(m, state) ==
  { k \in DOMAIN MenuSelects[m] :
      SelectValue(MenuSelects[m][k], state.selectedIndex[k]) = <<>> }

\* missingLabels
MissingLabels(m, state) ==
  LET missing == SelectSeq([g \in DOMAIN MenuOptionGroups[m] |-> g],
                           LAMBDA g : GroupStatus(MenuOptionGroups[m][g],
                                                  state.selected[g]) = "missing")
  IN [i \in DOMAIN missing |-> MenuOptionGroups[m][missing[i]].optionLabel]

\* collectMenuItemOptions with >= for > in the test of the maximum
OptionDataMaxOff(m, state) ==
  LET groups == MenuOptionGroups[m] IN
  [ options |-> GroupOptions(groups, state.selected, 1),
    isComplete |-> \A g \in DOMAIN groups :
                     /\ Cardinality(state.selected[g]) < MaxSelections(groups[g])
                     /\ ~(Required(groups[g]) /\ state.selected[g] = {}) ]

\* collectMenuItemOptions taking the options of the first select only
OptionDataFirstSelect(m, state) ==
  IF Len(MenuOptionGroups[m]) > 0
  THEN [ options |-> GroupOptions(MenuOptionGroups[m], state.selected, 1),
         isComplete |-> InvalidGroups(m, state) = {} ]
  ELSE [ options |-> IF EmptySelects(m, state) = {}
                     THEN << SelectOption(MenuSelects[m][1], state.selectedIndex[1]) >>
                     ELSE <<>>,
         isComplete |-> EmptySelects(m, state) = {} ]

\* what collectMenuItemOptions returns for menu item m: options, isComplete
OptionData(m, state) ==
  IF Len(MenuOptionGroups[m]) > 0
  THEN [ options |-> GroupOptions(MenuOptionGroups[m], state.selected, 1),
         isComplete |-> InvalidGroups(m, state) = {} ]
  ELSE [ options |-> IF EmptySelects(m, state) = {}
                     THEN [k \in DOMAIN MenuSelects[m] |->
                             SelectOption(MenuSelects[m][k], state.selectedIndex[k])]
                     ELSE <<>>,
         isComplete |-> EmptySelects(m, state) = {} ]

\* what collectMenuItemOptions does to the page
collectMenuItemOptions(w, m) ==
  LET state == w.menu[m]
      invalid == InvalidGroups(m, state)
      empty == IF Len(MenuOptionGroups[m]) > 0 THEN {} ELSE EmptySelects(m, state)
      isComplete == OptionData(m, state).isComplete
      missingLabels == MissingLabels(m, state)
  IN [Called(w, "collectMenuItemOptions") EXCEPT
        !.menu[m] =
          [state EXCEPT
             !.visible = TRUE,
             !.groupError = [g \in DOMAIN state.groupError |-> g \in invalid],
             !.selectError = IF Len(MenuOptionGroups[m]) > 0 THEN @
                             ELSE [k \in DOMAIN state.selectError |-> k \in empty],
             !.wrapperError = ~isComplete,
             !.hint = IF ~isComplete /\ Len(missingLabels) > 0
                      THEN [kind |-> "missing", labels |-> missingLabels]
                      ELSE DefaultHint,
             !.hintError = ~isComplete],
        !.focus = IF invalid # {} THEN <<"button", m, Min(invalid), 1>>
                  ELSE IF empty # {} THEN <<"select", m, Min(empty)>>
                  ELSE @]

\* resetMenuItemOptions that leaves the classes of the buttons alone
resetMenuItemErrorsOnly(w, m) ==
  [Called(w, "resetMenuItemOptions") EXCEPT
     !.menu[m] = [@ EXCEPT !.groupError = [g \in DOMAIN @ |-> FALSE],
                           !.selectError = [k \in DOMAIN @ |-> FALSE],
                           !.visible = FALSE,
                           !.wrapperError = FALSE,
                           !.hint = DefaultHint,
                           !.hintError = FALSE]]

\* the index select.value = '' selects: the first <option> with value ''
EmptyChoice(select) ==
  Min({ i \in DOMAIN select.choices : select.choices[i].value = <<>> }) - 1

\* resetMenuItemOptions(optionData): optionData.selects is empty when the
\* menu item has groups
resetMenuItemOptions(w, m) ==
  LET groups == MenuOptionGroups[m]
      selects == IF Len(groups) > 0 THEN <<>> ELSE MenuSelects[m]
  IN [Called(w, "resetMenuItemOptions") EXCEPT
        !.menu[m] =
          [@ EXCEPT
             !.selectedIndex =
                [k \in DOMAIN @ |->
                   IF k \in DOMAIN selects
                   THEN IF \E i \in DOMAIN selects[k].choices :
                              selects[k].choices[i].value = <<>>
                        THEN EmptyChoice(selects[k])
                        ELSE 0
                   ELSE @[k]],
             !.selectError = [k \in DOMAIN @ |-> IF k \in DOMAIN selects THEN FALSE ELSE @[k]],
             !.groupError = [g \in DOMAIN @ |-> FALSE],
             !.selected = [g \in DOMAIN @ |-> {}],
             !.visible = FALSE,
             !.wrapperError = FALSE,
             !.hint = DefaultHint,
             !.hintError = FALSE]]

\* the click listener without the test of the maximum
onOptionButtonClickUnlimited(w, m, g, b) ==
  LET group == MenuOptionGroups[m][g]
      state == [w.menu[m] EXCEPT !.visible = TRUE]
      settled(selectedButtons) ==
        [w EXCEPT !.menu[m] = [state EXCEPT !.selected[g] = selectedButtons,
                                            !.groupError[g] = FALSE,
                                            !.hint = DefaultHint,
                                            !.hintError = FALSE,
                                            !.wrapperError = FALSE]]
  IN IF b \in state.selected[g] THEN settled(state.selected[g] \ {b})
     ELSE IF SelectionType(group) = "single" THEN settled({b})
     ELSE settled(state.selected[g] \cup {b})

\* the click listener of button b of group g (initializeMenuItemOptions)
onOptionButtonClick(w, m, g, b) ==
  LET group == MenuOptionGroups[m][g]
      state == [w.menu[m] EXCEPT !.visible = TRUE]
      isSelected == b \in state.selected[g]
      settled(selectedButtons) ==
        [w EXCEPT !.menu[m] = [state EXCEPT !.selected[g] = selectedButtons,
                                            !.groupError[g] = FALSE,
                                            !.hint = DefaultHint,
                                            !.hintError = FALSE,
                                            !.wrapperError = FALSE]]
  IN IF isSelected THEN settled(state.selected[g] \ {b})
     ELSE IF SelectionType(group) = "single" THEN settled({b})
     ELSE IF Cardinality(state.selected[g]) >= MaxSelections(group)
          THEN [w EXCEPT !.menu[m] = [state EXCEPT !.groupError[g] = TRUE,
                                                   !.hint = [kind |-> "limit", labels |-> <<>>],
                                                   !.hintError = TRUE,
                                                   !.wrapperError = TRUE]]
          ELSE settled(state.selected[g] \cup {b})

\* the focus listener of select k
onSelectFocus(w, m, k) ==
  [w EXCEPT !.menu[m].visible = TRUE, !.focus = <<"select", m, k>>]

\* the visitor chooses <option> index of select k; the change listener
onSelectChange(w, m, k, index) ==
  [w EXCEPT !.menu[m] = [@ EXCEPT !.selectedIndex[k] = index,
                                  !.selectError[k] = FALSE,
                                  !.wrapperError = FALSE,
                                  !.hint = DefaultHint,
                                  !.hintError = FALSE]]

(***************************************************************************)
(* Cart operations.                                                        *)
(***************************************************************************)
\* find with a comparison that never succeeds
FindNothing(list, id) == 0

\* index of list.find(cartItem => cartItem.id === id), 0 when undefined
FindIndex(list, id) ==
  IF \E i \in DOMAIN list : list[i].id = id
  THEN CHOOSE i \in DOMAIN list :
         /\ list[i].id = id
         /\ \A j \in DOMAIN list : list[j].id = id => i <= j
  ELSE 0

\* list.filter(keep)
RECURSIVE FilterOutId(_, _)
\* the filter with === for !==
KeepOnlyId(list, id) == SelectSeq(list, LAMBDA entry : entry.id = id)

FilterOutId(list, id) ==
  IF list = <<>> THEN <<>>
  ELSE IF Head(list).id # id
       THEN <<Head(list)>> \o FilterOutId(Tail(list), id)
       ELSE FilterOutId(Tail(list), id)

\* addItem without the search for an existing entry
addItemAlwaysPushes(w, item, t) ==
  LET list == Append(w.items, [quantity |-> 1, addedAt |-> t] @@ item)
      w1 == saveCartToStorage(
              updateCartDisplay([Called(w, "addItem") EXCEPT !.items = list]))
  IN IF ~w1.isCartOpen THEN toggleCart(w1) ELSE w1

\* addItem that toggles the panel whether it is open or not
addItemAlwaysToggles(w, item, t) ==
  LET existing == FindIndex(w.items, item.id)
      list == IF existing > 0
              THEN [w.items EXCEPT ![existing].quantity = @ + 1]
              ELSE Append(w.items, [quantity |-> 1, addedAt |-> t] @@ item)
  IN toggleCart(saveCartToStorage(
       updateCartDisplay([Called(w, "addItem") EXCEPT !.items = list])))

\* addItem that overwrites the entry it finds with the item handed in
addItemRefreshing(w, item, t) ==
  LET existing == FindIndex(w.items, item.id)
      list == IF existing > 0
              THEN [w.items EXCEPT ![existing] =
                      [quantity |-> @.quantity + 1, addedAt |-> t] @@ item]
              ELSE Append(w.items, [quantity |-> 1, addedAt |-> t] @@ item)
      w1 == saveCartToStorage(
              updateCartDisplay([Called(w, "addItem") EXCEPT !.items = list]))
  IN IF ~w1.isCartOpen THEN toggleCart(w1) ELSE w1

\* t: Date.now()
addItem(w, item, t) ==
  LET existing == FindIndex(w.items, item.id)
      list == IF existing > 0
              THEN [w.items EXCEPT ![existing].quantity = @ + 1]
              ELSE Append(w.items, [quantity |-> 1, addedAt |-> t] @@ item)
      w1 == saveCartToStorage(
              updateCartDisplay([Called(w, "addItem") EXCEPT !.items = list]))
  IN IF ~w1.isCartOpen THEN toggleCart(w1) ELSE w1

\* removeItem without the call of saveCartToStorage
removeItemWithoutSave(w, itemId) ==
  updateCartDisplay(
    [Called(w, "removeItem") EXCEPT !.items = FilterOutId(w.items, itemId)])

removeItem(w, itemId) ==
  saveCartToStorage(
    updateCartDisplay(
      [Called(w, "removeItem") EXCEPT !.items = FilterOutId(w.items, itemId)]))

\* updateQuantity with newQuantity < 0 for newQuantity <= 0
updateQuantityKeepsZero(w, itemId, newQuantity) ==
  LET i == FindIndex(w.items, itemId)
      w1 == Called(w, "updateQuantity")
  IN IF i > 0
     THEN IF newQuantity < 0
          THEN saveCartToStorage(
                 updateCartDisplay(
                   [Called(w1, "removeItem") EXCEPT
                      !.items = FilterOutId(w.items, itemId)]))
          ELSE saveCartToStorage(
                 updateCartDisplay([w1 EXCEPT !.items[i].quantity = newQuantity]))
     ELSE w1

\* updateQuantity without the test of newQuantity
updateQuantityAlwaysSets(w, itemId, newQuantity) ==
  LET i == FindIndex(w.items, itemId)
      w1 == Called(w, "updateQuantity")
  IN IF i > 0
     THEN saveCartToStorage(
            updateCartDisplay([w1 EXCEPT !.items[i].quantity = newQuantity]))
     ELSE w1

\* updateQuantity with quantity += newQuantity for quantity = newQuantity
updateQuantityAdds(w, itemId, newQuantity) ==
  LET i == FindIndex(w.items, itemId)
      w1 == Called(w, "updateQuantity")
  IN IF i > 0
     THEN IF newQuantity <= 0
          THEN saveCartToStorage(
                 updateCartDisplay(
                   [Called(w1, "removeItem") EXCEPT
                      !.items = FilterOutId(w.items, itemId)]))
          ELSE saveCartToStorage(
                 updateCartDisplay(
                   [w1 EXCEPT !.items[i].quantity = @ + newQuantity]))
     ELSE w1

updateQuantity(w, itemId, newQuantity) ==
  LET i == FindIndex(w.items, itemId)
      w1 == Called(w, "updateQuantity")
  IN IF i > 0
     THEN IF newQuantity <= 0
          THEN removeItem(w1, itemId)
          ELSE saveCartToStorage(
                 updateCartDisplay([w1 EXCEPT !.items[i].quantity = newQuantity]))
     ELSE w1

clearCart(w) ==
  saveCartToStorage(updateCartDisplay([Called(w, "clearCart") EXCEPT !.items = <<>>]))

(***************************************************************************)
(* Checkout.                                                               *)
(***************************************************************************)
\* baseInvalid || patternInvalid for one field, on its trimmed value
CheckoutFieldInvalid(key, value) ==
  LET baseInvalid == value = <<>>
      patternInvalid ==
        IF key = "phone" THEN ~PhonePatternTest(value)
        ELSE IF key \in {"lastName", "firstName"} THEN ~NamePatternTest(value)
        ELSE IF key = "paymentMethod" THEN value = <<>>
        ELSE FALSE
  IN baseInvalid \/ patternInvalid

\* the validation that adds checkout-error and never removes it
validateCheckoutDetailsKeepingMarks(w) ==
  [w EXCEPT !.fields =
     [key \in CheckoutKeySet |->
        [w.fields[key] EXCEPT
           !.error = @ \/ CheckoutFieldInvalid(key, Trim(w.fields[key].value))]]]

\* the checkout-error classes validateCheckoutDetails leaves behind
validateCheckoutDetails(w) ==
  [w EXCEPT !.fields =
     [key \in CheckoutKeySet |->
        IF ~Has(w, CheckoutIds[key]) THEN w.fields[key]
        ELSE [w.fields[key] EXCEPT
                !.error = CheckoutFieldInvalid(key, Trim(w.fields[key].value))]]]

\* the value validateCheckoutDetails returns: a field the page does not have
\* is skipped
checkoutDetailsValid(w) ==
  \A key \in CheckoutKeySet :
    Has(w, CheckoutIds[key]) => ~CheckoutFieldInvalid(key, Trim(w.fields[key].value))

alert(w, message) == [w EXCEPT !.dialog.alerts = Append(@, message)]

\* field.tagName === 'SELECT'
IsSelect(key) == key = "paymentMethod"

\* the reset without the branch for the select
resetTextFieldsOnly(w) ==
  [w EXCEPT !.fields =
     [key \in CheckoutKeySet |->
        [value |-> IF IsSelect(key) THEN w.fields[key].value ELSE <<>>,
         error |-> FALSE]]]

\* the reset of every checkout field after a confirmed order
resetCheckoutFields(w) ==
  [w EXCEPT !.fields =
     [key \in CheckoutKeySet |->
        IF ~Has(w, CheckoutIds[key]) THEN w.fields[key]
        ELSE [value |-> IF IsSelect(key) THEN PaymentOptions[1] ELSE <<>>,
              error |-> FALSE]]]

\* total <= MIN_ORDER_TOTAL
AtOrBelowMinimum(total) == total <= MIN_ORDER_TOTAL

\* total < MIN_ORDER_TOTAL
BelowMinimum(total) == total < MIN_ORDER_TOTAL

\* checkout with the cart cleared before the minimum is tested
checkoutClearsEarly(w, answer) ==
  LET w0 == Called(w, "checkout") IN
  IF Len(w0.items) = 0 THEN alert(w0, "empty")
  ELSE LET w1 == validateCheckoutDetails(w0) IN
       IF ~checkoutDetailsValid(w0) THEN alert(w1, "invalid")
       ELSE IF BelowMinimum(getTotal(w1.items))
            THEN alert(clearCart(w1), "belowMinimum")
       ELSE LET w2 == [w1 EXCEPT !.dialog.confirmAsked = TRUE] IN
            IF answer
            THEN LET w3 == clearCart(resetCheckoutFields(alert(w2, "confirmed")))
                 IN IF w3.isCartOpen THEN toggleCart(w3) ELSE w3
            ELSE w2

\* answer: what confirm() returns
checkout(w, answer) ==
  LET w0 == Called(w, "checkout") IN
  IF Len(w0.items) = 0 THEN alert(w0, "empty")
  ELSE LET w1 == validateCheckoutDetails(w0) IN
       IF ~checkoutDetailsValid(w0) THEN alert(w1, "invalid")
       ELSE IF BelowMinimum(getTotal(w1.items)) THEN alert(w1, "belowMinimum")
       ELSE IF \E key \in CheckoutKeySet : ~Has(w1, CheckoutIds[key]) THEN Throw(w1)
       ELSE LET w2 == [w1 EXCEPT !.dialog.confirmAsked = TRUE] IN
            IF answer
            THEN LET w3 == clearCart(resetCheckoutFields(alert(w2, "confirmed")))
                 IN IF w3.isCartOpen THEN toggleCart(w3) ELSE w3
            ELSE w2

(***************************************************************************)
(* The add-to-cart buttons.                                                *)
(***************************************************************************)
\* the button shows the added label and is disabled until its timer fires
showAddToCartFeedback(w, m) ==
  [Called(w, "showAddToCartFeedback") EXCEPT
     !.addButtons[m] = [text |-> AddedLabel, disabled |-> TRUE, adding |-> TRUE],
     !.timers = @ \cup {[button |-> m, originalText |-> w.addButtons[m].text]}]

\* the callback showAddToCartFeedback hands to setTimeout
feedbackTimeout(w, timer) ==
  [w EXCEPT
     !.addButtons[timer.button] =
        [text |-> timer.originalText, disabled |-> FALSE, adding |-> FALSE],
     !.timers = @ \ {timer}]

\* the click listener without the return on an incomplete option state
onAddToCartClickAnyway(w, m, t) ==
  IF MenuItems[m].hasOptions
  THEN resetMenuItemOptions(
         showAddToCartFeedback(
           addItem(collectMenuItemOptions(w, m),
                   BuildItem(m, OptionData(m, w.menu[m]).options), t), m), m)
  ELSE showAddToCartFeedback(addItem(w, BuildItem(m, <<>>), t), m)

\* the click listener of the .btn-add-to-cart of menu item m
onAddToCartClick(w, m, t) ==
  IF MenuItems[m].hasOptions
  THEN LET optionData == OptionData(m, w.menu[m])
           collected == collectMenuItemOptions(w, m)
       IN IF ~optionData.isComplete
          THEN collected
          ELSE resetMenuItemOptions(
                 showAddToCartFeedback(
                   addItem(collected, BuildItem(m, optionData.options), t), m), m)
  ELSE showAddToCartFeedback(addItem(w, BuildItem(m, <<>>), t), m)

(***************************************************************************)
(* The contact form (FormValidator).                                       *)
(***************************************************************************)
\* this.fields, in the order of the object and of the document
ContactKeys == <<"name", "email", "phone", "subject", "message">>

ContactKeySet == { ContactKeys[i] : i \in DOMAIN ContactKeys }

\* a field without validation classes, as the markup and resetForm have it
UntouchedField ==
  [value |-> <<>>, error |-> FALSE, success |-> FALSE, errorText |-> "",
   ariaInvalid |-> "absent"]

\* textContent of the submit button in the markup, and while sending
SubmitLabel == <<"E","n","v","o","y","e","r">>
SendingLabel == <<"E","n","v","o","i"," ","e","n"," ","c","o","u","r","s",".",".",".">>

\* the contact form as the markup has it
ContactMarkup ==
  [ fields |-> [key \in ContactKeySet |-> UntouchedField],
    button |-> [text |-> SubmitLabel, disabled |-> FALSE],
    ackTimers |-> <<>>,
    hideTimers |-> 0,
    successShown |-> FALSE ]

\* /^[^\s@]+@[^\s@]+\.[^\s@]+$/.test(s): one @, no whitespace, and a dot
\* after the @ with something on both sides
EmailPatternTest(s) ==
  /\ \A i \in DOMAIN s : ~IsSpace(s[i])
  /\ Cardinality({ i \in DOMAIN s : s[i] = "@" }) = 1
  /\ \E i, j \in DOMAIN s :
       /\ s[i] = "@"
       /\ s[j] = "."
       /\ 1 < i
       /\ i + 1 < j
       /\ j < Len(s)

\* the message validateField finds for the trimmed value of field key, "" when
\* the value is valid
FieldError(key, value) ==
  IF value = <<>> THEN "required"
  ELSE IF key = "name" /\ ~NamePatternTest(value) THEN "invalidName"
  ELSE IF key = "email" /\ ~EmailPatternTest(value) THEN "invalidEmail"
  ELSE IF key = "phone" /\ ~PhonePatternTest(value) THEN "invalidPhone"
  ELSE IF key = "message" /\ Len(value) < 10 THEN "shortMessage"
  ELSE ""

\* what validateField(field) returns
FieldValid(w, key) == FieldError(key, Trim(w.contact.fields[key].value)) = ""

\* validateField(field): the classes are removed, then showError or
\* showSuccess
validateField(w, key) ==
  LET message == FieldError(key, Trim(w.contact.fields[key].value)) IN
  [w EXCEPT !.contact.fields[key] =
     [@ EXCEPT !.error = message # "",
               !.success = message = "",
               !.errorText = message,
               !.ariaInvalid = IF message # "" THEN "true" ELSE "false"]]

\* validateAllFields that stops at the first invalid field
RECURSIVE validateUntilInvalid(_, _)
validateUntilInvalid(w, i) ==
  IF i > Len(ContactKeys) THEN w
  ELSE IF ~FieldValid(w, ContactKeys[i]) THEN validateField(w, ContactKeys[i])
  ELSE validateUntilInvalid(validateField(w, ContactKeys[i]), i + 1)

\* the forEach of validateAllFields, from field i on
RECURSIVE validateAllFields(_, _)
validateAllFields(w, i) ==
  IF i > Len(ContactKeys) THEN w
  ELSE validateAllFields(validateField(w, ContactKeys[i]), i + 1)

\* isFormValid
allFieldsValid(w) == \A key \in ContactKeySet : FieldValid(w, key)

\* submitForm: the button shows the sending label and is disabled until the
\* timer fires; the callback keeps originalButtonText
submitForm(w) ==
  [w EXCEPT
     !.contact.ackTimers = Append(@, [originalButtonText |-> w.contact.button.text]),
     !.contact.button = [text |-> SendingLabel, disabled |-> TRUE]]

\* this.form.querySelector('.error'): the first field with the class error
FirstError(w) ==
  Min({ i \in DOMAIN ContactKeys : w.contact.fields[ContactKeys[i]].error })

\* handleSubmit with a validateAllFields that stops at the first invalid field
handleSubmitUntilInvalid(w) ==
  LET validated == validateUntilInvalid(w, 1) IN
  IF allFieldsValid(w) THEN submitForm(validated)
  ELSE IF \E key \in ContactKeySet : validated.contact.fields[key].error
       THEN [validated EXCEPT !.focus = <<"contact", ContactKeys[FirstError(validated)]>>]
       ELSE validated

handleSubmit(w) ==
  LET validated == validateAllFields(w, 1) IN
  IF allFieldsValid(w) THEN submitForm(validated)
  ELSE IF \E key \in ContactKeySet : validated.contact.fields[key].error
       THEN [validated EXCEPT !.focus = <<"contact", ContactKeys[FirstError(validated)]>>]
       ELSE validated

\* the input listener without the test of the class error
onContactInputAlways(w, key, value) ==
  validateField([w EXCEPT !.contact.fields[key].value = value], key)

\* the visitor changes the value of a field; the input listener
onContactInput(w, key, value) ==
  LET typed == [w EXCEPT !.contact.fields[key].value = value] IN
  IF w.contact.fields[key].error THEN validateField(typed, key) ELSE typed

\* showSuccessMessage: the class show, and a timer that removes it
showSuccessMessage(w) ==
  [w EXCEPT !.contact.successShown = TRUE, !.contact.hideTimers = @ + 1]

\* resetForm that leaves the classes of the fields alone
resetFormKeepingClasses(w) ==
  [w EXCEPT !.contact.fields =
     [key \in ContactKeySet |-> [@[key] EXCEPT !.value = <<>>]]]

\* resetForm: form.reset() and the removal of classes, aria-invalid, error text
resetForm(w) ==
  [w EXCEPT !.contact.fields = [key \in ContactKeySet |-> UntouchedField]]

\* the callback submitForm hands to setTimeout; the oldest pending one fires
ackTimeout(w) ==
  LET timer == Head(w.contact.ackTimers)
      w1 == resetForm(showSuccessMessage(w))
  IN [w1 EXCEPT !.contact.button = [text |-> timer.originalButtonText,
                                    disabled |-> FALSE],
                !.contact.ackTimers = Tail(@)]

\* the callback showSuccessMessage hands to setTimeout
hideTimeout(w) ==
  [w EXCEPT !.contact.successShown = FALSE, !.contact.hideTimers = @ - 1]

(***************************************************************************)
(* Page load.                                                              *)
(***************************************************************************)
\* the page as served, before any script has run, over the given storage
FreshPage(saved) ==
  [ items |-> <<>>, isCartOpen |-> FALSE, storage |-> saved,
    lastWrite |-> "none", storageWritable |-> TRUE,
    cartContentDisplay |-> "", cartCountText |-> <<"0">>,
    cartRows |-> <<>>, cartEmptyDisplay |-> "", cartSummaryDisplay |-> "",
    cartTotalText |-> <<>>,
    fields |-> [key \in CheckoutKeySet |->
                  [value |-> IF IsSelect(key) THEN PaymentOptions[1] ELSE <<>>,
                   error |-> FALSE]],
    dialog |-> NoDialog, calls |-> <<"load">>, uncaught |-> "none",
    menu |-> [m \in DOMAIN MenuItems |-> MarkupOptions(m, {})],
    focus |-> <<>>,
    addButtons |-> [m \in DOMAIN MenuItems |->
                      [text |-> ButtonLabel, disabled |-> FALSE, adding |-> FALSE]],
    timers |-> {},
    nav |-> NavClosed, activeLinks |-> {}, headerContrast |-> FALSE,
    contact |-> ContactMarkup, absent |-> {}, thrown |-> "none",
    bounce |-> NoBounce(FALSE) ]

\* new ShoppingCart(): the constructor and init().  init() binds the listeners
\* of cartToggle and checkoutBtn first; an error thrown by the first render
\* leaves it before setupAddToCartButtons, and the constructor before
\* window.shoppingCart is assigned.
Constructor(w) ==
  updateCartDisplay(
    [Called(w, "constructor") EXCEPT
       !.items = loadCartFromStorage(w.storage), !.isCartOpen = FALSE])

\* what uncaught holds when init() ended before new ShoppingCart()
InitAborted == "TypeError before the cart"

\* the page's init(): new FormValidator(contactForm) when the form exists,
\* whose init() calls addEventListener on each of its five fields without a
\* test, then new ShoppingCart()
init(w) ==
  IF Has(w, "contactForm") /\ \E key \in ContactKeySet : ~Has(w, key)
  THEN [w EXCEPT !.uncaught = InitAborted]
  ELSE Constructor(w)

(***************************************************************************)
(* Inputs.                                                                 *)
(***************************************************************************)
\* what the visitor can have typed into the checkout fields
FormBlank == [key \in CheckoutKeySet |-> <<>>]

FormGood ==
  [ lastName |-> <<"R","e","y">>,
    firstName |-> <<" ","Z","o","é">>,
    address |-> <<"R","u","e"," ","1">>,
    city |-> <<"B","e","x">>,
    phone |-> <<"0","7","8"," ","1","2","3"," ","4","5"," ","6","7">>,
    paymentMethod |-> PaymentOptions[2] ]

FormBadPhone == [FormGood EXCEPT !.phone = <<"0","7","8","1","2","3">>]

FormInputs == {FormGood, FormBadPhone}

\* what the page finds under 'kebab_cart' on a first visit
BootStorage == {StorageAbsent, StorageUnparsable, StorageNonArray}

\* arrays under 'kebab_cart' that this page did not write: a null element, a
\* record without price, a record with quantity 0
NullArray == JSONStringify(<< JsonNull >>)
PricelessArray ==
  JSONStringify(<< [id |-> <<"x">>, name |-> <<"X">>, quantity |-> 1] >>)
ZeroQuantityArray ==
  JSONStringify(<< [quantity |-> 0, addedAt |-> 0] @@ BuildItem(1, <<>>) >>)

ForeignArrays == {NullArray, PricelessArray, ZeroQuantityArray}

\* what a page load can find in localStorage besides its own writes
CorruptStorage == BootStorage \cup {StorageUnreadable} \cup ForeignArrays

\* quantities handed to updateQuantity
QuantityArgs == (0 - 1) .. 2

(***************************************************************************)
(* Actions.                                                                *)
(***************************************************************************)
\* a handler starts: no dialog is shown yet, no method has been called, no
\* error thrown
Start(event) ==
  [World EXCEPT !.dialog = NoDialog, !.calls = <<event>>, !.thrown = "none"]

\* init() has returned: the listeners of the add-to-cart buttons are bound and
\* window.shoppingCart is set
Ready == uncaught = "none"

Init ==
  /\ \E saved \in BootStorage : Is(Constructor(FreshPage(saved)))
  /\ now = 0

\* shoppingCart.addItem(item)
AddItem(item) ==
  /\ Ready
  /\ getTotalItems(items) < MaxUnits
  /\ Becomes(addItem(Start("call"), item, now))
  /\ UNCHANGED now

\* shoppingCart.removeItem(itemId)
RemoveItem(itemId) ==
  /\ Ready
  /\ Becomes(removeItem(Start("call"), itemId))
  /\ UNCHANGED now

\* shoppingCart.updateQuantity(itemId, newQuantity)
UpdateQuantity(itemId, newQuantity) ==
  /\ Ready
  /\ LET i == FindIndex(items, itemId) IN
       i > 0 => getTotalItems(items) - items[i].quantity + newQuantity <= MaxUnits
  /\ Becomes(updateQuantity(Start("call"), itemId, newQuantity))
  /\ UNCHANGED now

\* shoppingCart.clearCart()
ClearCart ==
  /\ Ready
  /\ Becomes(clearCart(Start("call")))
  /\ UNCHANGED now

\* click on the "-" button of row i
DecreaseClick(i) ==
  /\ Ready
  /\ i \in DOMAIN cartRows
  /\ Becomes(Bubble(updateQuantity(Start("decreaseClick"), cartRows[i].itemId,
                                   items[i].quantity - 1)))
  /\ UNCHANGED now

\* click on the "+" button of row i
IncreaseClick(i) ==
  /\ Ready
  /\ i \in DOMAIN cartRows
  /\ getTotalItems(items) < MaxUnits
  /\ Becomes(Bubble(updateQuantity(Start("increaseClick"), cartRows[i].itemId,
                                   items[i].quantity + 1)))
  /\ UNCHANGED now

\* click on the remove button of row i
RemoveClick(i) ==
  /\ Ready
  /\ i \in DOMAIN cartRows
  /\ Becomes(Bubble(removeItem(Start("removeClick"), cartRows[i].itemId)))
  /\ UNCHANGED now

\* the constructor of ShoppingCart has run bindEvents
Bound == uncaught # InitAborted

\* click on cartToggle (its listener is bound before the first render)
ToggleClick ==
  /\ Bound
  /\ "cartToggle" \notin absent
  /\ Becomes(Bubble(toggleCart(Start("cartToggleClick"))))
  /\ UNCHANGED now

\* the visitor fills in the checkout fields (no handler listens to them)
EditForm(input) ==
  /\ Becomes([World EXCEPT !.fields =
                [key \in CheckoutKeySet |-> [fields[key] EXCEPT !.value = input[key]]]])
  /\ UNCHANGED now

\* click on checkoutBtn (its listener is bound before the first render; the
\* cart the model lets it see has been rendered without an error)
CheckoutClick(answer) ==
  /\ Ready
  /\ "checkoutBtn" \notin absent
  /\ Becomes(Bubble(checkout(Start("checkoutClick"), answer)))
  /\ UNCHANGED now

\* the page is loaded again over the storage the previous load left
Reload ==
  /\ Becomes(Constructor([FreshPage(storage) EXCEPT !.storageWritable = storageWritable]))
  /\ UNCHANGED now

Next ==
  \/ \E item \in OrderItems : AddItem(item)
  \/ \E itemId \in OrderIds : RemoveItem(itemId)
  \/ \E itemId \in OrderIds, n \in QuantityArgs : UpdateQuantity(itemId, n)
  \/ ClearCart
  \/ \E i \in 1 .. MaxUnits : DecreaseClick(i)
  \/ \E i \in 1 .. MaxUnits : IncreaseClick(i)
  \/ \E i \in 1 .. MaxUnits : RemoveClick(i)
  \/ ToggleClick
  \/ \E input \in FormInputs : EditForm(input)
  \/ \E answer \in BOOLEAN : CheckoutClick(answer)
  \/ Reload

Spec == Init /\ [][Next]_vars

(***************************************************************************)
(* The menu: option buttons, selects and add-to-cart buttons.              *)
(***************************************************************************)
\* the visitor deals with one menu item at a time: the option controls of
\* the menu items other than m are as the markup has them
OthersUntouched(m) ==
  \A other \in DOMAIN MenuItems \ {m} : menu[other] = MarkupOptions(other, {})

\* click on the .btn-add-to-cart of menu item m; a disabled button gets no
\* click
AddToCartClick(m) ==
  /\ Ready
  /\ ~addButtons[m].disabled
  /\ OthersUntouched(m)
  /\ \/ MenuItems[m].hasOptions /\ ~OptionData(m, menu[m]).isComplete
     \/ getTotalItems(items) < MaxMenuUnits /\ Cardinality(timers) < MaxTimers
  /\ Becomes(Bubble(onAddToCartClick(Start("addToCartClick"), m, now)))
  /\ UNCHANGED now

\* click on button b of option group g of menu item m
OptionButtonClick(m, g, b) ==
  /\ g \in DOMAIN MenuOptionGroups[m]
  /\ b \in DOMAIN MenuOptionGroups[m][g].values
  /\ OthersUntouched(m)
  /\ Becomes(Bubble(onOptionButtonClick(World, m, g, b)))
  /\ UNCHANGED now

\* select k of menu item m gets the focus
SelectFocus(m, k) ==
  /\ k \in DOMAIN MenuSelects[m]
  /\ focus # <<"select", m, k>>
  /\ OthersUntouched(m)
  /\ Becomes(onSelectFocus(World, m, k))
  /\ UNCHANGED now

\* the visitor chooses another <option> of select k of menu item m
SelectChange(m, k, index) ==
  /\ k \in DOMAIN MenuSelects[m]
  /\ index + 1 \in DOMAIN MenuSelects[m][k].choices
  /\ index # menu[m].selectedIndex[k]
  /\ OthersUntouched(m)
  /\ Becomes(onSelectChange(World, m, k, index))
  /\ UNCHANGED now

\* a timer of showAddToCartFeedback fires
FeedbackTimeout(timer) ==
  /\ timer \in timers
  /\ Becomes(feedbackTimeout(Start("timeout"), timer))
  /\ UNCHANGED now

\* the buttons of the last option group that the markup can mark as selected
Preselections == { {}, {1, 2} }

\* the cards of the menu sections proper
MenuCards == 1 .. 4

\* the page whose markup has the buttons of preselected selected in the last
\* option group of every card of the menu sections
InitOptions ==
  /\ \E preselected \in Preselections :
       Is(Constructor([FreshPage(StorageAbsent) EXCEPT
                         !.menu = [m \in DOMAIN MenuItems |->
                                     MarkupOptions(m, IF m \in MenuCards
                                                      THEN preselected ELSE {})]]))
  /\ now = 0

NextOptions ==
  \/ \E m \in MenuCards : AddToCartClick(m)
  \/ \E m \in MenuCards, g \in 1 .. 2, b \in 1 .. 2 : OptionButtonClick(m, g, b)
  \/ \E m \in MenuCards, k \in 1 .. 2 : SelectFocus(m, k)
  \/ \E m \in MenuCards, k \in 1 .. 2, index \in 0 .. 1 : SelectChange(m, k, index)
  \/ \E timer \in timers : FeedbackTimeout(timer)
  \/ ClearCart

SpecOptions == InitOptions /\ [][NextOptions]_vars

(***************************************************************************)
(* Navigation.                                                             *)
(***************************************************************************)
\* the largest number of entries the observer hands to one callback
MaxEntries == 2

\* click on navToggle: its listener, then the listener of document
NavToggleClick ==
  /\ "navToggle" \notin absent
  /\ Becomes(onDocumentClick(toggleMobileMenu(Start("navToggleClick")), FALSE, TRUE))
  /\ UNCHANGED now

\* click on .nav-link l: its listener, then the listener of document
NavLinkClick(l) ==
  /\ Becomes(onDocumentClick(closeMobileMenu(Start("navLinkClick")), LinkInsideMenu(l),
                             FALSE))
  /\ UNCHANGED now

\* click inside navMenu, not on a link: the listener of document alone
MenuClick ==
  /\ Becomes(onDocumentClick(Start("menuClick"), TRUE, FALSE))
  /\ UNCHANGED now

\* click on the page outside navMenu and navToggle, on no element with a
\* listener of its own
PageClick ==
  /\ Becomes(Bubble(Start("pageClick")))
  /\ UNCHANGED now

\* what the observer of initScrollObserver can report: for some sections,
\* whether each crosses the middle of the viewport
ObserverEntries ==
  UNION { [1 .. n -> [target : Sections, isIntersecting : BOOLEAN]] :
            n \in 1 .. MaxEntries }

Intersection(entries) ==
  /\ Becomes(observerCallback(World, entries))
  /\ UNCHANGED now

\* the hero section enters or leaves the viewport
ContrastChange(isIntersecting) ==
  /\ Becomes(contrastCallback(World, isIntersecting))
  /\ UNCHANGED now

\* the links that carry the class active in the markup
MarkupActive == { {}, {1} }

InitNav ==
  /\ \E saved \in BootStorage, marked \in MarkupActive :
       Is(Constructor([FreshPage(saved) EXCEPT !.activeLinks = marked]))
  /\ now = 0

NextNav ==
  \/ NavToggleClick
  \/ \E l \in DOMAIN NavLinks : NavLinkClick(l)
  \/ MenuClick
  \/ PageClick
  \/ ToggleClick
  \/ \E entries \in ObserverEntries : Intersection(entries)
  \/ \E isIntersecting \in BOOLEAN : ContrastChange(isIntersecting)

SpecNav == InitNav /\ [][NextNav]_vars

(***************************************************************************)
(* The contact form.                                                       *)
(***************************************************************************)
\* the largest number of timers of the contact form that are pending at once
MaxFormTimers == 2

\* what the visitor types into each field
ContactEntries ==
  [ name |-> { <<"Z","o","é">> },
    email |-> { <<"z","@","k",".","c","h">>, <<"z","@","k","c","h">> },
    phone |-> { <<"0","7","8","1","2","3","4","5","6","7">> },
    subject |-> { <<"i","n","f","o">> },
    message |-> { <<" ","B","o","n","j","o","u","r"," ","!","!","!">> } ]

\* the visitor fills in the form from the top: the fields before field key
\* have a value
FilledBefore(key) ==
  \A i, j \in DOMAIN ContactKeys :
    (ContactKeys[j] = key /\ i < j) => contact.fields[ContactKeys[i]].value # <<>>

\* the visitor changes the value of field key
ContactInput(key, value) ==
  /\ value # contact.fields[key].value
  /\ FilledBefore(key)
  /\ Becomes(onContactInput(World, key, value))
  /\ UNCHANGED now

\* field key loses the focus
ContactBlur(key) ==
  /\ Becomes(validateField(World, key))
  /\ UNCHANGED now

\* a submit event on the form: from the submit button, or from a script
\* (form.requestSubmit()) while the button is disabled
ContactSubmit ==
  /\ allFieldsValid(World) =>
       Len(contact.ackTimers) + contact.hideTimers < MaxFormTimers
  /\ Becomes(handleSubmit(World))
  /\ UNCHANGED now

\* the oldest timer of submitForm fires
AckTimeout ==
  /\ contact.ackTimers # <<>>
  /\ Becomes(ackTimeout(World))
  /\ UNCHANGED now

\* the oldest timer of showSuccessMessage fires
HideTimeout ==
  /\ contact.hideTimers > 0
  /\ Becomes(hideTimeout(World))
  /\ UNCHANGED now

NextForm ==
  \/ \E key \in ContactKeySet : \E value \in ContactEntries[key] : ContactInput(key, value)
  \/ \E key \in ContactKeySet : ContactBlur(key)
  \/ ContactSubmit
  \/ AckTimeout
  \/ HideTimeout

InitForm ==
  /\ Is(Constructor(FreshPage(StorageAbsent)))
  /\ now = 0

SpecForm == InitForm /\ [][NextForm]_vars

(***************************************************************************)
(* The cart filled from menu cards whose names or options differ in        *)
(* spelling only: cards 2 and 5, cards 3 and 6.                            *)
(***************************************************************************)
TwinCards == {2, 3, 5, 6}

\* click on the .btn-add-to-cart of card m
TwinClick(m) ==
  /\ Ready
  /\ ~addButtons[m].disabled
  /\ OthersUntouched(m)
  /\ \/ MenuItems[m].hasOptions /\ ~OptionData(m, menu[m]).isComplete
     \/ getTotalItems(items) < MaxTwinUnits /\ Cardinality(timers) < MaxTimers
  /\ Becomes(Bubble(onAddToCartClick(Start("addToCartClick"), m, now)))
  /\ UNCHANGED now

NextTwins ==
  \/ \E m \in TwinCards : TwinClick(m)
  \/ \E m \in TwinCards, b \in 1 .. 2 : OptionButtonClick(m, 1, b)
  \/ \E timer \in timers : FeedbackTimeout(timer)
  \/ ClearCart

SpecTwins == Init /\ [][NextTwins]_vars

(***************************************************************************)
(* Pages that lack one of the elements the code looks up.                  *)
(***************************************************************************)
\* the pages loaded: the full markup, and the markup without one element
AbsentPages ==
  { {} } \cup
  { {id} : id \in { "header", "navMenu", "navToggle", "cartToggle", "cartContent",
                    "cartCount", "cartItems", "cartSummary", "checkoutBtn",
                    "checkoutPhone", "contactForm", "phone" } }

InitAbsent ==
  /\ \E missing \in AbsentPages :
       Is(init([FreshPage(StorageAbsent) EXCEPT !.absent = missing]))
  /\ now = 0

NextAbsent ==
  \/ AddItem(BuildItem(1, <<>>))
  \/ \E i \in 1 .. MaxUnits : RemoveClick(i)
  \/ ToggleClick
  \/ EditForm(FormGood)
  \/ \E answer \in BOOLEAN : CheckoutClick(answer)
  \/ NavToggleClick
  \/ \E l \in DOMAIN NavLinks : NavLinkClick(l)
  \/ PageClick

SpecAbsent == InitAbsent /\ [][NextAbsent]_vars

(***************************************************************************)
(* The cart driven through its methods alone.                              *)
(***************************************************************************)
NextCart ==
  \/ \E item \in OrderItems : AddItem(item)
  \/ \E itemId \in OrderIds : RemoveItem(itemId)
  \/ \E itemId \in OrderIds, n \in QuantityArgs : UpdateQuantity(itemId, n)
  \/ ClearCart
  \/ Reload

SpecCart == Init /\ [][NextCart]_vars

(***************************************************************************)
(* The cart over a storage whose setItem may throw (quota reached, storage *)
(* disabled).                                                              *)
(***************************************************************************)
\* the storage starts or stops accepting writes
QuotaChange(writable) ==
  /\ writable # storageWritable
  /\ Becomes([World EXCEPT !.storageWritable = writable])
  /\ UNCHANGED now

\* the items ordered: the first two cards of the menu
QuotaItems == { BuildItem(m, <<>>) : m \in 1 .. 2 }

QuotaIds == { it.id : it \in QuotaItems }

InitQuota ==
  /\ \E writable \in BOOLEAN :
       Is(Constructor([FreshPage(StorageAbsent) EXCEPT !.storageWritable = writable]))
  /\ now = 0

NextQuota ==
  \/ \E item \in QuotaItems : AddItem(item)
  \/ \E itemId \in QuotaIds : RemoveItem(itemId)
  \/ \E itemId \in QuotaIds, n \in QuantityArgs : UpdateQuantity(itemId, n)
  \/ ClearCart
  \/ \E writable \in BOOLEAN : QuotaChange(writable)

SpecQuota == InitQuota /\ [][NextQuota]_vars

(***************************************************************************)
(* The option buttons of the cards that have some, none selected in the    *)
(* markup.                                                                 *)
(***************************************************************************)
ButtonCards == {3, 7}

InitButtons ==
  /\ Is(Constructor(FreshPage(StorageAbsent)))
  /\ now = 0

NextButtons ==
  \/ \E m \in ButtonCards, g \in 1 .. 2, b \in 1 .. 3 : OptionButtonClick(m, g, b)
  \/ AddToCartClick(3)
  \/ \E timer \in timers : FeedbackTimeout(timer)

SpecButtons == InitButtons /\ [][NextButtons]_vars

(***************************************************************************)
(* Clicks and timers in any order, on a page whose badge is or is not      *)
(* inside the cart toggle.                                                 *)
(***************************************************************************)
\* a callback that removes cart-bounce from element e runs
BounceTimeout(e, last) ==
  /\ e \in bounce.pending
  /\ Becomes(bounceTimeout(Start("timeout"), e, last))
  /\ UNCHANGED now

InitBounce ==
  /\ \E badgeInToggle \in BOOLEAN :
       Is(Constructor([FreshPage(StorageAbsent) EXCEPT
                         !.bounce = NoBounce(badgeInToggle)]))
  /\ now = 0

NextBounce ==
  \/ \E m \in 1 .. 2 : AddToCartClick(m)
  \/ ToggleClick
  \/ \E i \in 1 .. MaxUnits : IncreaseClick(i)
  \/ \E i \in 1 .. MaxUnits : DecreaseClick(i)
  \/ \E timer \in timers : FeedbackTimeout(timer)
  \/ \E e \in {"cartToggle", "badgeParent"}, last \in BOOLEAN : BounceTimeout(e, last)

SpecBounce == InitBounce /\ [][NextBounce]_vars

(***************************************************************************)
(* The customer details typed field by field, over a saved cart of two     *)
(* kebabs.                                                                 *)
(***************************************************************************)
\* what the visitor can type into, or choose in, each checkout field
DetailEntries ==
  [ lastName |-> { <<"R","e","y">>, <<" ","A"," ">> },
    firstName |-> { <<" ","Z","o","é">> },
    address |-> { <<"R","u","e"," ","1">> },
    city |-> { <<"B","e","x">>, <<" ">> },
    phone |-> { <<"0","7","8"," ","1","2","3"," ","4","5"," ","6","7">>,
                <<"0","7","8","1","2","3">> },
    paymentMethod |-> { PaymentOptions[2] } ]

\* the visitor sets one checkout field (no handler listens to it)
EditField(key, value) ==
  /\ fields[key].value # value
  /\ Becomes([World EXCEPT !.fields[key].value = value])
  /\ UNCHANGED now

SavedKebabs ==
  JSONStringify(<< [quantity |-> 2, addedAt |-> 0] @@ BuildItem(1, <<>>) >>)

InitDetails ==
  /\ Is(Constructor(FreshPage(SavedKebabs)))
  /\ now = 0

NextDetails ==
  \/ \E key \in CheckoutKeySet : \E value \in DetailEntries[key] : EditField(key, value)
  \/ \E answer \in BOOLEAN : CheckoutClick(answer)

SpecDetails == InitDetails /\ [][NextDetails]_vars

(***************************************************************************)
(* The cart while the clock runs.                                          *)
(***************************************************************************)
\* the latest value of Date.now() the model lets the clock reach
MaxClock == 2

\* time passes
Tick ==
  /\ now < MaxClock
  /\ now' = now + 1
  /\ Becomes(World)

\* the items ordered: the first two cards of the menu and the card whose name
\* is the second card's in another spelling
ClockItems == { BuildItem(m, <<>>) : m \in {1, 2, 5} }

ClockIds == { it.id : it \in ClockItems }

NextClock ==
  \/ \E item \in ClockItems : AddItem(item)
  \/ \E itemId \in ClockIds : RemoveItem(itemId)
  \/ Tick

SpecClock == Init /\ [][NextClock]_vars

(***************************************************************************)
(* The page loaded over storage it did not write.  A storage that cannot   *)
(* be read cannot be written either.                                       *)
(***************************************************************************)
InitCorrupt ==
  /\ \E saved \in CorruptStorage :
       Is(Constructor([FreshPage(saved) EXCEPT
                         !.storageWritable = saved.kind # "unreadable"]))
  /\ now = 0

NextCorrupt ==
  \/ \E item \in OrderItems : AddItem(item)
  \/ \E i \in 1 .. MaxUnits : DecreaseClick(i)
  \/ \E i \in 1 .. MaxUnits : IncreaseClick(i)
  \/ \E i \in 1 .. MaxUnits : RemoveClick(i)
  \/ ToggleClick
  \/ Reload

SpecCorrupt == InitCorrupt /\ [][NextCorrupt]_vars

(***************************************************************************)
(* Properties.                                                             *)
(***************************************************************************)
Kebab == BuildItem(1, <<>>)
IceTea == BuildItem(2, <<>>)

HasId(list, id) == \E i \in DOMAIN list : list[i].id = id

Calls == { calls[i] : i \in DOMAIN calls }

\* the step is a call of updateQuantity
ByUpdateQuantity == SubSeq(calls', 1, 2) = <<"call", "updateQuantity">>

\* sum over the entries of price times quantity, entry by entry from the end
RECURSIVE SumOfProducts(_)
SumOfProducts(list) ==
  IF list = <<>> THEN 0
  ELSE SumOfProducts(SubSeq(list, 1, Len(list) - 1))
         + list[Len(list)].price * list[Len(list)].quantity

\* sum over the entries of the quantities, entry by entry from the end
RECURSIVE SumOfQuantities(_)
SumOfQuantities(list) ==
  IF list = <<>> THEN 0
  ELSE SumOfQuantities(SubSeq(list, 1, Len(list) - 1)) + list[Len(list)].quantity

\* C1: addItem of an item whose id an entry already has adds 1 to the quantity
\* of that entry, changes no other quantity and keeps the number of entries;
\* addItem of an item whose id no entry has appends one entry of quantity 1, so
\* that adding the same item twice to a cart without it gives one entry of
\* quantity 2.
C1_AddItemMerges ==
  [][\A item \in OrderItems :
       (calls'[1] = "call" /\ AddItem(item)) =>
         IF HasId(items, item.id)
         THEN /\ Len(items') = Len(items)
              /\ \A i \in DOMAIN items :
                   /\ items'[i].id = items[i].id
                   /\ items'[i].quantity =
                        items[i].quantity + (IF items[i].id = item.id THEN 1 ELSE 0)
         ELSE /\ Len(items') = Len(items) + 1
              /\ SubSeq(items', 1, Len(items)) = items
              /\ items'[Len(items')].id = item.id
              /\ items'[Len(items')].quantity = 1]_vars

\* the same item was added twice to an empty cart
C1_Witness ==
  /\ calls = <<"call", "addItem", "saveCartToStorage">>
  /\ Len(items) = 1
  /\ items[1].quantity = 2

\* C2: in every reachable state, after a first load, after a reload over the
\* persisted list and after any cart operation, no two entries of the list
\* have the same id.
C2_UniqueIds ==
  \A i, j \in DOMAIN items : items[i].id = items[j].id => i = j

\* a cart of two entries restored from storage
C2_Witness ==
  /\ calls = <<"load", "constructor">>
  /\ Len(items) = 2

\* C3: getTotal() is the sum over the current entries of price times quantity,
\* 0 for the empty cart, and carries no rounding.
C3_TotalIsSumOfProducts ==
  getTotal(items) = SumOfProducts(items)

\* two entries, one of them of quantity 2 set by a click on "+"
C3_Witness ==
  /\ calls[1] = "increaseClick"
  /\ Len(items) = 2
  /\ getTotal(items) = 26

\* the cart after Kebab (10) was added twice and Ice Tea (6) once
ExampleCart ==
  /\ Len(items) = 2
  /\ items[1].id = Kebab.id /\ items[1].quantity = 2
  /\ items[2].id = IceTea.id /\ items[2].quantity = 1

\* C4: getTotalItems() is the sum of the quantities of the current entries;
\* with A (10) added twice and B (6) once it is 3 and the total 26, and after
\* updateQuantity(A, 0) it is 1 and the total 6.
C4_TotalItemsIsSumOfQuantities ==
  /\ [](getTotalItems(items) = SumOfQuantities(items))
  /\ [](ExampleCart => getTotalItems(items) = 3 /\ getTotal(items) = 26)
  /\ [][ExampleCart /\ UpdateQuantity(Kebab.id, 0) =>
          getTotalItems(items') = 1 /\ getTotal(items') = 6]_vars

\* updateQuantity has removed an entry and left Ice Tea alone in the cart
C4_Witness ==
  /\ calls = <<"call", "updateQuantity", "removeItem", "saveCartToStorage">>
  /\ Len(items) = 1
  /\ items[1].id = IceTea.id
  /\ cartCountText = <<"1">>
  /\ cartTotalText = CurrencyText(6)

\* C5: updateQuantity(id, n) with n <= 0 on an id of the cart removes that
\* entry: no entry has the id afterwards and there is one entry less.
C5_NonPositiveQuantityRemoves ==
  [][\A itemId \in OrderIds : \A n \in QuantityArgs :
       (n <= 0 /\ HasId(items, itemId) /\ ByUpdateQuantity
          /\ UpdateQuantity(itemId, n)) =>
         /\ ~HasId(items', itemId)
         /\ Len(items') = Len(items) - 1]_vars

\* a call of updateQuantity has removed an entry, another entry is left
C5_Witness ==
  /\ calls = <<"call", "updateQuantity", "removeItem", "saveCartToStorage">>
  /\ Len(items) = 2

\* C6: starting from an empty cart, every entry of the list has a quantity
\* of at least 1.
C6_QuantitiesPositive ==
  \A i \in DOMAIN items : items[i].quantity >= 1

\* a click on "-" has removed the last entry, whose quantity was 1
C6_Witness ==
  /\ calls = <<"decreaseClick", "updateQuantity", "removeItem", "saveCartToStorage">>
  /\ items = <<>>

\* C7: checkout() asks for the confirmation exactly when the cart is not
\* empty, the customer details are valid and the total is at least
\* MIN_ORDER_TOTAL; otherwise it is refused with one alert.
C7_CheckoutAcceptedIff ==
  [][\A answer \in BOOLEAN :
       (calls'[1] = "checkoutClick" /\ CheckoutClick(answer)) =>
         /\ dialog'.confirmAsked <=>
              /\ Len(items) > 0
              /\ checkoutDetailsValid(World)
              /\ getTotal(items) >= MIN_ORDER_TOTAL
         /\ ~dialog'.confirmAsked =>
              /\ Len(dialog'.alerts) = 1
              /\ dialog'.alerts[1] \in {"empty", "invalid", "belowMinimum"}]_vars

\* the confirmation was asked for a total equal to the minimum, and declined
C7_Witness ==
  /\ dialog.confirmAsked
  /\ getTotal(items) = MIN_ORDER_TOTAL

\* C8: a rejected checkout() leaves the list, the persisted value and the
\* open/closed state of the panel as they were, and writes nothing.
C8_RejectedCheckoutChangesNothing ==
  [][\A answer \in BOOLEAN :
       (calls'[1] = "checkoutClick" /\ ~dialog'.confirmAsked
          /\ CheckoutClick(answer)) =>
         /\ items' = items
         /\ storage' = storage
         /\ lastWrite' = lastWrite
         /\ "saveCartToStorage" \notin { calls'[i] : i \in DOMAIN calls' }
         /\ isCartOpen' = isCartOpen
         /\ cartContentDisplay' = cartContentDisplay]_vars

\* a checkout below the minimum was rejected with the panel open
C8_Witness ==
  /\ dialog.alerts = <<"belowMinimum">>
  /\ isCartOpen
  /\ Len(items) > 0

\* C9: when checkout() has passed its checks, a declined confirmation leaves
\* the list, the persisted value, the values of the customer fields and the
\* panel as they were; a confirmation leaves the list empty, the empty list
\* persisted, every customer field as on a fresh page and the panel closed.
C9_OnlyConfirmationClears ==
  [][/\ (dialog'.confirmAsked /\ CheckoutClick(FALSE)) =>
          /\ items' = items
          /\ storage' = storage
          /\ \A key \in CheckoutKeySet : fields'[key].value = fields[key].value
          /\ isCartOpen' = isCartOpen
          /\ cartContentDisplay' = cartContentDisplay
     /\ (dialog'.confirmAsked /\ CheckoutClick(TRUE)) =>
          /\ items' = <<>>
          /\ storage' = JSONStringify(<<>>)
          /\ fields' = FreshPage(storage).fields
          /\ ~isCartOpen'
          /\ cartContentDisplay' # "block"]_vars

\* an order was confirmed from the open panel
C9_Witness ==
  /\ dialog.alerts = <<"confirmed">>
  /\ dialog.confirmAsked
  /\ "toggleCart" \in Calls
  /\ items = <<>>

\* C10: once a write of this page load has succeeded, the persisted value is
\* the serialization of the list in memory in every state; before the first
\* write, the list in memory is what the persisted value restores to.
C10_StorageMirrorsItems ==
  /\ lastWrite = "ok" => storage = JSONStringify(items)
  /\ lastWrite = "none" => items = loadCartFromStorage(storage)

\* a click on a remove button has removed one entry of two and saved the rest
C10_Witness ==
  /\ calls = <<"removeClick", "removeItem", "saveCartToStorage">>
  /\ lastWrite = "ok"
  /\ Len(items) = 1

\* the options of an entry, none when it has no options property
OptionsOf(item) == IF "options" \in DOMAIN item THEN item.options ELSE <<>>

\* C11: a page load over the storage the previous page load left restores the
\* list it held: as many entries, in the same order, each with the same id,
\* name, price, quantity and options (an empty options sequence for an entry
\* without options), so that getTotal and getTotalItems are unchanged.
C11_ReloadRestoresCart ==
  [][(calls' = <<"load", "constructor">> /\ Reload) =>
       /\ Len(items') = Len(items)
       /\ \A i \in DOMAIN items :
            /\ items'[i].id = items[i].id
            /\ items'[i].name = items[i].name
            /\ items'[i].price = items[i].price
            /\ items'[i].quantity = items[i].quantity
            /\ items'[i].options = OptionsOf(items[i])
       /\ getTotal(items') = getTotal(items)
       /\ getTotalItems(items') = getTotalItems(items)]_vars

\* a restored cart of an entry without options and an entry with an option
C11_Witness ==
  /\ calls = <<"load", "constructor">>
  /\ Len(items) = 2
  /\ items[1].options = <<>>
  /\ items[1].quantity = 2
  /\ Len(items[2].options) = 1

\* C12: a page load over a storage value that is absent, does not parse,
\* parses to something that is no array, or cannot be read starts with the
\* empty list, and init() ends without an error.
C12_UnusableStorageLoadsEmpty ==
  (calls = <<"load", "constructor">>
     /\ storage.kind \in {"absent", "unparsable", "nonarray", "unreadable"}) =>
    /\ items = <<>>
    /\ uncaught = "none"
    /\ cartEmptyDisplay = "block"

\* a page load over a storage that cannot be read
C12_Witness ==
  /\ calls = <<"load", "constructor">>
  /\ storage.kind = "unreadable"
  /\ lastWrite = "none"
  /\ ~storageWritable
  /\ items = <<>>
  /\ uncaught = "none"

\* C13: a page load over a stored array with an element that is no well-formed
\* line item (null, no price, quantity 0) starts with the empty list, and
\* init() ends without an error.
C13_IllFormedArrayLoadsEmpty ==
  (calls = <<"load", "constructor">> /\ storage \in ForeignArrays) =>
    /\ items = <<>>
    /\ uncaught = "none"

\* the entries of the list whose id is not id, in their order
Without(list, id) == SelectSeq(list, LAMBDA entry : entry.id # id)

\* C14: removeItem(id) removes the entry with that id and leaves the other
\* entries as they were, fields, quantities and order; with no entry of that
\* id the list is unchanged.
C14_RemoveItemRemovesOnlyThat ==
  [][\A itemId \in OrderIds :
       (calls' = <<"call", "removeItem", "saveCartToStorage">>
          /\ RemoveItem(itemId)) =>
         /\ items' = Without(items, itemId)
         /\ HasId(items, itemId) => Len(items') = Len(items) - 1
         /\ ~HasId(items, itemId) => items' = items]_vars

\* removeItem has been called and has left two entries
C14_Witness ==
  /\ calls = <<"call", "removeItem", "saveCartToStorage">>
  /\ Len(items) = 2
  /\ items[1].quantity = 2

\* C15 as stated: for every id, in the cart or not, and every n <= 0,
\* updateQuantity(id, n) leaves what removeItem(id) leaves: the same list, the
\* same persisted value and the same rendered cart.
C15_UpdateToZeroIsRemove ==
  [][\A itemId \in OrderIds : \A n \in QuantityArgs :
       (n <= 0 /\ ByUpdateQuantity /\ UpdateQuantity(itemId, n)) =>
         LET removed == removeItem(Start("call"), itemId) IN
         /\ items' = removed.items
         /\ storage' = removed.storage
         /\ lastWrite' = removed.lastWrite
         /\ cartRows' = removed.cartRows
         /\ cartCountText' = removed.cartCountText]_vars

\* C15 amended: for every id of the cart and every n <= 0, updateQuantity(id, n)
\* leaves what removeItem(id) leaves: the list without that entry, that list
\* persisted and rendered; for an id that is not in the cart updateQuantity
\* writes and renders nothing.
C15_UpdateToZeroIsRemoveWhenPresent ==
  [][\A itemId \in OrderIds : \A n \in QuantityArgs :
       (n <= 0 /\ ByUpdateQuantity /\ UpdateQuantity(itemId, n)) =>
         IF HasId(items, itemId)
         THEN LET removed == removeItem(Start("call"), itemId) IN
              /\ items' = Without(items, itemId)
              /\ storage' = JSONStringify(items')
              /\ lastWrite' = "ok"
              /\ cartRows' = [i \in DOMAIN items' |-> createCartItemElement(items'[i])]
              /\ items' = removed.items
              /\ storage' = removed.storage
              /\ lastWrite' = removed.lastWrite
              /\ cartRows' = removed.cartRows
              /\ cartCountText' = removed.cartCountText
              /\ cartTotalText' = removed.cartTotalText
         ELSE /\ calls' = <<"call", "updateQuantity">>
              /\ UNCHANGED <<items, storage, lastWrite, cartRows, cartCountText>>]_vars

\* updateQuantity with 0 has removed the only entry and saved the empty list
C15_Witness ==
  /\ calls = <<"call", "updateQuantity", "removeItem", "saveCartToStorage">>
  /\ items = <<>>
  /\ storage = JSONStringify(<<>>)

\* C16: updateQuantity(id, n) with n > 0 on an id of the cart sets the quantity
\* of that entry to n and leaves its other fields, the other entries and the
\* order as they were; on an id that is not in the cart it changes nothing.
C16_UpdateSetsQuantityOnly ==
  [][\A itemId \in OrderIds : \A n \in QuantityArgs :
       (n > 0 /\ ByUpdateQuantity /\ UpdateQuantity(itemId, n)) =>
         IF HasId(items, itemId)
         THEN /\ Len(items') = Len(items)
              /\ \A i \in DOMAIN items :
                   items'[i] = IF items[i].id = itemId
                               THEN [items[i] EXCEPT !.quantity = n]
                               ELSE items[i]
         ELSE UNCHANGED <<items, storage, lastWrite, cartRows>>]_vars

\* updateQuantity has set the quantity of the second of two entries to 2
C16_Witness ==
  /\ calls = <<"call", "updateQuantity", "saveCartToStorage">>
  /\ Len(items) = 2
  /\ items[1].quantity = 1
  /\ items[2].quantity = 2

\* the menu items with options: those with option groups, those with selects
OptionMenus == { m \in DOMAIN MenuItems : MenuItems[m].hasOptions }
ButtonMenus == { m \in OptionMenus : Len(MenuOptionGroups[m]) > 0 }
DropdownMenus == OptionMenus \ ButtonMenus

\* group g of menu item m has more selected buttons than its maximum, or is
\* required and has none
GroupOffends(m, g) ==
  LET group == MenuOptionGroups[m][g]
      count == Cardinality(menu[m].selected[g])
  IN \/ count > MaxSelections(group)
     \/ group.required # "false" /\ count = 0

\* required select k of menu item m has no value chosen
SelectOffends(m, k) ==
  MenuSelects[m][k].choices[menu[m].selectedIndex[k] + 1].value = <<>>

OffendingGroups(m) == { g \in DOMAIN MenuOptionGroups[m] : GroupOffends(m, g) }
OffendingSelects(m) ==
  IF m \in DropdownMenus
  THEN { k \in DOMAIN MenuSelects[m] : SelectOffends(m, k) }
  ELSE {}

\* the step is a click on an add-to-cart button that was aborted, that added
Aborted == calls' = <<"addToCartClick", "collectMenuItemOptions">>
Added == calls'[1] = "addToCartClick" /\ calls'[Len(calls')] = "resetMenuItemOptions"

\* C17: an add-to-cart click on a menu item with options whose option state
\* is invalid changes neither the list, nor the persisted value, nor the open
\* or closed panel, nor the add-to-cart button; it keeps the selected buttons
\* and the chosen <option>s, and it marks the offending groups or selects and
\* the wrapper with their error classes.
C17_InvalidOptionsAbortAdd ==
  [][\A m \in OptionMenus :
       ((OffendingGroups(m) # {} \/ OffendingSelects(m) # {})
          /\ calls'[1] = "addToCartClick" /\ AddToCartClick(m)) =>
         /\ UNCHANGED <<items, storage, lastWrite, isCartOpen, cartContentDisplay,
                        cartRows, addButtons, timers>>
         /\ menu'[m].selected = menu[m].selected
         /\ menu'[m].selectedIndex = menu[m].selectedIndex
         /\ \A g \in DOMAIN MenuOptionGroups[m] :
              menu'[m].groupError[g] <=> g \in OffendingGroups(m)
         /\ \A k \in DOMAIN MenuSelects[m] :
              menu'[m].selectError[k] <=> k \in OffendingSelects(m)
         /\ menu'[m].wrapperError
         /\ menu'[m].hintError]_vars

\* an aborted click with the cart filled and open: the required group has no
\* button selected and is marked, the selected extra is kept
C17_Witness ==
  /\ calls = <<"addToCartClick", "collectMenuItemOptions">>
  /\ Len(items) = 1
  /\ isCartOpen
  /\ menu[3].selected = << {}, {2} >>
  /\ menu[3].groupError = << TRUE, FALSE >>

\* the options of the groups of menu item m that have selected buttons
RECURSIVE ExpectedGroupOptions(_, _)
ExpectedGroupOptions(m, g) ==
  IF g > Len(MenuOptionGroups[m]) THEN <<>>
  ELSE LET group == MenuOptionGroups[m][g]
           chosen == menu[m].selected[g]
           one == CHOOSE b \in chosen : \A c \in chosen : b <= c
       IN (IF chosen = {} THEN <<>>
           ELSE << [key |-> group.optionKey, label |-> group.optionLabel,
                    value |-> group.values[one]] >>)
          \o ExpectedGroupOptions(m, g + 1)

\* C18: with option groups, collectMenuItemOptions finds the option state
\* invalid exactly when a group has more selected buttons than its maximum or
\* a required group has none; a group that is not required and has no
\* selected button is valid and gives the line item no option.
C18_ButtonGroupsInvalidIff ==
  [][\A m \in ButtonMenus :
       (calls'[1] = "addToCartClick" /\ AddToCartClick(m)) =>
         /\ Aborted <=> OffendingGroups(m) # {}
         /\ OptionData(m, menu[m]).isComplete <=> OffendingGroups(m) = {}
         /\ ~Aborted =>
              \E i \in DOMAIN items' :
                /\ items'[i].name = MenuItems[m].name
                /\ OptionsOf(items'[i]) = ExpectedGroupOptions(m, 1)
                /\ \A g \in DOMAIN MenuOptionGroups[m] :
                     menu[m].selected[g] = {} =>
                       \A o \in DOMAIN OptionsOf(items'[i]) :
                         OptionsOf(items'[i])[o].key # MenuOptionGroups[m][g].optionKey]_vars

\* an aborted click: the group of maximum 1 has two selected buttons and is
\* marked, the required group has one and is not
C18_Witness ==
  /\ calls = <<"addToCartClick", "collectMenuItemOptions">>
  /\ menu[3].selected = << {1}, {1, 2} >>
  /\ menu[3].groupError = << FALSE, TRUE >>

\* C19: with required selects, the option state is invalid exactly when a
\* select has no value chosen; then every select without value is marked, the
\* first of them gets the focus and no option is collected; otherwise one
\* {key, label, value} is collected per select, in the order of the selects.
C19_DropdownsInvalidIff ==
  [][\A m \in DropdownMenus :
       (calls'[1] = "addToCartClick" /\ AddToCartClick(m)) =>
         /\ Aborted <=> OffendingSelects(m) # {}
         /\ Aborted =>
              /\ \A k \in DOMAIN MenuSelects[m] :
                   menu'[m].selectError[k] <=> k \in OffendingSelects(m)
              /\ focus' = <<"select", m,
                            CHOOSE k \in OffendingSelects(m) :
                              \A j \in OffendingSelects(m) : k <= j>>
              /\ OptionData(m, menu[m]).options = <<>>
              /\ items' = items
         /\ ~Aborted =>
              \E i \in DOMAIN items' :
                /\ items'[i].name = MenuItems[m].name
                /\ Len(items'[i].options) = Len(MenuSelects[m])
                /\ \A k \in DOMAIN MenuSelects[m] :
                     /\ items'[i].options[k].key = MenuSelects[m][k].optionKey
                     /\ items'[i].options[k].label = MenuSelects[m][k].optionLabel
                /\ items'[i].options[1].value = <<"K","e","b","a","b">>
                /\ items'[i].options[2].value = <<"C","o","l","a">>]_vars

\* an aborted click: the first select has a value, the second has none, is
\* marked and has the focus
C19_Witness ==
  /\ calls = <<"addToCartClick", "collectMenuItemOptions">>
  /\ menu[4].selectedIndex = << 1, 0 >>
  /\ menu[4].selectError = << FALSE, TRUE >>
  /\ focus = <<"select", 4, 2>>

\* menu item m has a required option: a required group or a required select
HasRequired(m) ==
  \/ \E g \in DOMAIN MenuOptionGroups[m] : MenuOptionGroups[m][g].required # "false"
  \/ m \in DropdownMenus /\ Len(MenuSelects[m]) > 0

\* no button of menu item m is selected and each of its selects shows its
\* empty choice
NothingChosen(m) ==
  /\ \A g \in DOMAIN MenuOptionGroups[m] : menu[m].selected[g] = {}
  /\ \A k \in DOMAIN MenuSelects[m] : SelectOffends(m, k)

\* C20: an add-to-cart click that adds a menu item with options leaves the
\* collected options on the line item, no option button of the menu item
\* selected and every required select on its empty choice; while nothing is
\* chosen, a click on the add-to-cart button of a menu item with a required
\* option adds nothing.
C20_OptionsStoredThenReset ==
  [][\A m \in OptionMenus :
       /\ (Added /\ AddToCartClick(m)) =>
            /\ \E i \in DOMAIN items' :
                 /\ items'[i].name = MenuItems[m].name
                 /\ OptionsOf(items'[i]) = OptionData(m, menu[m]).options
                 /\ Len(OptionsOf(items'[i])) > 0
            /\ NothingChosen(m)'
       /\ (NothingChosen(m) /\ HasRequired(m) /\ calls'[1] = "addToCartClick"
             /\ AddToCartClick(m)) =>
            /\ Aborted
            /\ items' = items]_vars

\* a click has added the menu item with groups, with a sauce and an extra, and
\* has left none of its buttons selected
C20_Witness ==
  /\ calls[1] = "addToCartClick"
  /\ calls[Len(calls)] = "resetMenuItemOptions"
  /\ Len(items) = 1
  /\ Len(items[1].options) = 2
  /\ menu[3].selected = << {}, {} >>
  /\ addButtons[3].disabled

\* a text in lower case with every run of whitespace as one hyphen
Canonical(text) == ReplaceSpaces(ToLowerCase(text))

\* the canonical "key-value" texts of a sequence of options
CanonicalOptions(options) ==
  [i \in DOMAIN options |-> Canonical(options[i].key \o <<"-">> \o options[i].value)]

\* the options a click on the add-to-cart button of card m collects now
ClickOptions(m) ==
  IF MenuItems[m].hasOptions THEN OptionData(m, menu[m]).options ELSE <<>>

\* entry i of the list differs from what a click on card m would add in
\* spelling only: same canonical name, same price, same canonical options
SameButSpelling(i, m) ==
  /\ Canonical(items[i].name) = Canonical(MenuItems[m].name)
  /\ items[i].price = ParseFloat(MenuItems[m].price)
  /\ CanonicalOptions(OptionsOf(items[i])) = CanonicalOptions(ClickOptions(m))

\* C21: the id is determined by the canonical name and price and the
\* canonical key-value texts of the options (lower case, whitespace runs as
\* hyphens): an entry of the cart that differs from what a card would add in
\* spelling only has the id that card would give.  An adding click on such a
\* card appends nothing: the entry gets one more unit and keeps its name and
\* options.
C21_SpellingTwinsMerge ==
  /\ [](\A m \in TwinCards : \A i \in DOMAIN items :
         SameButSpelling(i, m) =>
           items[i].id = generateItemId(MenuItems[m], ClickOptions(m)))
  /\ [][\A m \in TwinCards : \A i \in DOMAIN items :
          (calls'[1] = "addToCartClick" /\ ~Aborted /\ SameButSpelling(i, m)
             /\ TwinClick(m)) =>
            /\ Len(items') = Len(items)
            /\ items' = [items EXCEPT ![i].quantity = @ + 1]
            /\ items'[i].name = items[i].name
            /\ OptionsOf(items'[i]) = OptionsOf(items[i])]_vars

\* "Ice Tea" was added, then "ICE  TEA", whose button shows the feedback: one
\* entry of quantity 2 under the first name
C21_Witness ==
  /\ addButtons[5].adding
  /\ Len(items) = 1
  /\ items[1].quantity = 2
  /\ items[1].name = MenuItems[2].name
  /\ items[1].name # MenuItems[5].name

\* "Box" with sauce "BLANCHE" was added to a cart that held "Box" with sauce
\* "Blanche": one entry of quantity 2 with the first spelling
C21_WitnessOptions ==
  /\ addButtons[6].adding
  /\ Len(items) = 1
  /\ items[1].quantity = 2
  /\ items[1].options = CollectedOptions(3, 1)

\* the mobile menu is open
MenuOpen == nav.menuActive

\* C22: in every state the clicks on the trigger, the links, the menu and the
\* page can reach, document.body.style.overflow is 'hidden' exactly when
\* navMenu carries active, and navMenu, navToggle and header carry active,
\* active and header--menu-open all three or none.
C22_ScrollLockedIffMenuOpen ==
  /\ nav.overflow = "hidden" <=> nav.menuActive
  /\ nav.overflow \in {"hidden", ""}
  /\ nav.toggleActive = nav.menuActive
  /\ nav.headerMenuOpen = nav.menuActive

\* a click on the trigger has opened the menu and locked the scroll, while
\* the link of the second section is the active one
C22_Witness ==
  /\ calls = <<"navToggleClick">>
  /\ nav.menuActive
  /\ nav.overflow = "hidden"
  /\ nav.headerMenuOpen
  /\ activeLinks = {2}

\* C23: a click on the trigger flips the menu from closed to open and from
\* open to closed; after a click on a link, in the menu or not, and after a
\* click outside the menu and the trigger, the menu is closed; a click inside
\* the menu that is on no link leaves the menu as it was.
C23_ClicksDriveMenu ==
  [][/\ NavToggleClick => nav'.menuActive = ~nav.menuActive
     /\ (\E l \in DOMAIN NavLinks : NavLinkClick(l)) => ~nav'.menuActive
     /\ (PageClick \/ ToggleClick) => ~nav'.menuActive
     /\ MenuClick => nav' = nav]_vars

\* a click on the trigger has opened the menu again, after a click on the
\* cart toggle had closed it
C23_Witness ==
  /\ calls = <<"navToggleClick">>
  /\ nav.menuActive
  /\ nav.toggleActive
  /\ isCartOpen

\* C24 as stated: after a callback that reports a section as intersecting
\* exactly one link carries the class active, and from then on exactly one
\* does, whatever the callbacks report.
C24_ExactlyOneActiveLink ==
  [][/\ \A entries \in ObserverEntries :
          ((\E e \in DOMAIN entries : entries[e].isIntersecting)
             /\ Intersection(entries)) => Cardinality(activeLinks') = 1
     /\ Cardinality(activeLinks) = 1 => Cardinality(activeLinks') = 1]_vars

\* the validation state of field key of the contact form
FieldState(key) ==
  LET field == contact.fields[key] IN
  IF field.error /\ field.success THEN "both"
  ELSE IF field.error THEN "invalid"
  ELSE IF field.success THEN "valid"
  ELSE "untouched"

\* the fields of the contact form whose validator rejects the current value
InvalidFields == { key \in ContactKeySet : ~FieldValid(World, key) }

\* the submit event has started a submission
Submitted ==
  /\ Len(contact'.ackTimers) = Len(contact.ackTimers) + 1
  /\ contact'.button = [text |-> SendingLabel, disabled |-> TRUE]

\* C25: a submit event validates each of the five fields: afterwards a field
\* is marked invalid exactly when its validator rejects its value, and valid
\* otherwise.  The submission starts exactly when no field is rejected; when
\* one is, no timer is started, the button is left alone and the first
\* rejected field, in the order of the form, gets the focus.
C25_SubmitValidatesAllFields ==
  [][(contact'.successShown = contact.successShown
        /\ contact'.fields["name"].value = contact.fields["name"].value
        /\ contact'.fields["email"].value = contact.fields["email"].value
        /\ ContactSubmit) =>
       /\ \A key \in ContactKeySet :
            /\ contact'.fields[key].error <=> key \in InvalidFields
            /\ contact'.fields[key].success <=> key \notin InvalidFields
            /\ contact'.fields[key].value = contact.fields[key].value
       /\ Submitted <=> InvalidFields = {}
       /\ InvalidFields # {} =>
            /\ contact'.ackTimers = contact.ackTimers
            /\ contact'.hideTimers = contact.hideTimers
            /\ contact'.button = contact.button
            /\ \E i \in DOMAIN ContactKeys :
                 /\ ContactKeys[i] \in InvalidFields
                 /\ \A j \in 1 .. (i - 1) : ContactKeys[j] \notin InvalidFields
                 /\ focus' = <<"contact", ContactKeys[i]>>]_vars

\* a rejected submit: the name is marked valid, the mistyped email and the
\* three empty fields are marked invalid, the email has the focus
C25_Witness ==
  /\ contact.fields["name"].success
  /\ contact.fields["email"].errorText = "invalidEmail"
  /\ contact.fields["phone"].errorText = "required"
  /\ contact.fields["subject"].error
  /\ contact.fields["message"].error
  /\ focus = <<"contact", "email">>
  /\ contact.ackTimers = <<>>
  /\ ~contact.button.disabled

\* C26: no field of the contact form is ever marked valid and invalid at
\* once.  The validation state of a field changes only when that field loses
\* the focus, when its value changes while it is marked invalid, on a submit
\* event and when the form is reset; a change of the value of a field that is
\* untouched or valid leaves the validation state of every field as it was.
C26_FieldStateChangesOnlyOn ==
  /\ [](\A key \in ContactKeySet : FieldState(key) # "both")
  /\ [][\A key \in ContactKeySet :
          /\ FieldState(key)' # FieldState(key) =>
               \/ ContactBlur(key)
               \/ /\ FieldState(key) = "invalid"
                  /\ \E value \in ContactEntries[key] : ContactInput(key, value)
               \/ ContactSubmit
               \/ AckTimeout
          /\ (FieldState(key) # "invalid"
                /\ \E value \in ContactEntries[key] : ContactInput(key, value)) =>
               \A other \in ContactKeySet : FieldState(other)' = FieldState(other)]_vars

\* the email was marked valid and then mistyped: it is still marked valid
C26_Witness ==
  /\ contact.fields["email"].success
  /\ ~EmailPatternTest(contact.fields["email"].value)
  /\ contact.fields["email"].value # <<>>
  /\ contact.fields["name"].success

\* every field of the contact form is untouched and empty
FormUntouched ==
  \A key \in ContactKeySet :
    /\ FieldState(key) = "untouched"
    /\ contact.fields[key].value = <<>>
    /\ contact.fields[key].errorText = ""

\* C27 as stated: when a timer of submitForm fires and leaves none pending,
\* every field is untouched and empty and the submit button is enabled and
\* shows the label the markup gave it, also when a second submission was
\* started before the timer of the first had fired.
C27_AcknowledgedFormIsRestored ==
  [][(AckTimeout /\ contact'.ackTimers = <<>>) =>
       /\ FormUntouched'
       /\ contact'.button = [text |-> SubmitLabel, disabled |-> FALSE]]_vars

\* C27 amended: whenever a timer of submitForm fires, every field is
\* untouched and empty afterwards and the submit button is enabled and shows
\* the label it showed when that submission started.  A submission started
\* while none is pending and the button shows its label restores that label; a
\* submission started while the button shows the sending label restores the
\* sending label.
C27_AcknowledgedFormIsReset ==
  [][/\ AckTimeout =>
          /\ FormUntouched'
          /\ ~contact'.button.disabled
          /\ contact'.button.text = Head(contact.ackTimers).originalButtonText
          /\ contact'.successShown
     /\ (Submitted /\ ContactSubmit) =>
          /\ contact'.ackTimers[Len(contact'.ackTimers)].originalButtonText
               = contact.button.text
          /\ (contact.ackTimers = <<>> /\ contact.button.text = SubmitLabel) =>
               \A t \in DOMAIN contact'.ackTimers :
                 contact'.ackTimers[t].originalButtonText = SubmitLabel
          /\ contact.button.disabled =>
               contact'.ackTimers[Len(contact'.ackTimers)].originalButtonText
                 = SendingLabel]_vars

\* the timers of two overlapping submissions have fired: the form is reset,
\* the button is enabled and shows the sending label
C27_Witness ==
  /\ contact.ackTimers = <<>>
  /\ FormUntouched
  /\ contact.button = [text |-> SendingLabel, disabled |-> FALSE]
  /\ contact.successShown

(***************************************************************************)
(* Missing elements.                                                       *)
(***************************************************************************)
\* the elements every use of which stands behind an existence test
GuardedElements ==
  { "header", "cartToggle", "cartContent", "cartCount", "cartItems",
    "cartSummary", "checkoutBtn", "contactForm" }

\* on a page that lacks only guarded elements no listener throws and init()
\* completes
GuardedElementsAreNoOps ==
  absent \subseteq GuardedElements => thrown = "none" /\ uncaught = "none"

\* C28: whichever expected elements the page lacks, init() completes and no
\* listener of any event raises an error
C28_MissingElementsRaiseNoError == thrown = "none" /\ uncaught = "none"

(***************************************************************************)
(* Storage that refuses writes.                                            *)
(***************************************************************************)
\* the method call starts over a storage that accepts the write
OverWritable == [Start("call") EXCEPT !.storageWritable = TRUE]

Attempted(w) == \E i \in DOMAIN w.calls : w.calls[i] = "saveCartToStorage"

\* the step ends as the call over a writable storage ends in w, but for the
\* storage, which keeps its content, and no error leaves the method
CompletesAs(w) ==
  /\ World' = [w EXCEPT !.storage = storage, !.storageWritable = FALSE,
                        !.lastWrite = IF Attempted(w) THEN "threw" ELSE lastWrite]
  /\ thrown' = "none"
  /\ uncaught' = "none"

\* C29: a call of addItem, removeItem, updateQuantity or clearCart during
\* which setItem throws ends without an error and leaves the list, the view
\* and the panel as the same call does when the write succeeds; the storage
\* keeps what it held; this holds for every such call, also after earlier
\* failed writes
C29_FailedWriteCompletes ==
  [][~storageWritable /\ calls'[1] = "call" /\ ~storageWritable' =>
       /\ calls'[2] = "addItem" =>
            \A item \in QuotaItems :
              AddItem(item) => CompletesAs(addItem(OverWritable, item, now))
       /\ calls'[2] = "removeItem" =>
            \A itemId \in QuotaIds :
              RemoveItem(itemId) => CompletesAs(removeItem(OverWritable, itemId))
       /\ calls'[2] = "updateQuantity" =>
            \A itemId \in QuotaIds, n \in QuantityArgs :
              UpdateQuantity(itemId, n)
                => CompletesAs(updateQuantity(OverWritable, itemId, n))
       /\ calls'[2] = "clearCart" =>
            (ClearCart => CompletesAs(clearCart(OverWritable)))]_vars

\* the second failed write in a row has put a second entry into the cart while
\* the storage still has no cart
C29_Witness ==
  /\ ~storageWritable
  /\ lastWrite = "threw"
  /\ Len(items) = 2
  /\ Len(cartRows) = 2
  /\ storage = StorageAbsent
  /\ calls[1] = "call"

(***************************************************************************)
(* The rendered cart.                                                      *)
(***************************************************************************)
\* the badge, the empty-cart message, the summary and the rows show the list
ViewMatchesModel ==
  /\ cartCountText = NumberToString(getTotalItems(items))
  /\ cartEmptyDisplay = (IF Len(items) = 0 THEN "block" ELSE "none")
  /\ cartSummaryDisplay = (IF Len(items) = 0 THEN "none" ELSE "block")
  /\ Len(cartRows) = Len(items)
  /\ \A i \in DOMAIN items :
       /\ cartRows[i].itemId = items[i].id
       /\ cartRows[i].name = items[i].name
       /\ cartRows[i].quantityDisplay = items[i].quantity

\* the list without its entry at position i
WithoutEntry(list, i) == SubSeq(list, 1, i - 1) \o SubSeq(list, i + 1, Len(list))

\* a click on a control of row i changes the entry at position i: "-" takes
\* one unit off it or removes it when it has one unit, "+" adds one unit,
\* the remove button removes it; the other entries stay
RowControlsActOnTheirEntry ==
  \A i \in 1 .. MaxUnits :
    /\ calls'[1] = "decreaseClick" /\ DecreaseClick(i) =>
         items' = IF items[i].quantity = 1 THEN WithoutEntry(items, i)
                  ELSE [items EXCEPT ![i].quantity = @ - 1]
    /\ calls'[1] = "increaseClick" /\ IncreaseClick(i) =>
         items' = [items EXCEPT ![i].quantity = @ + 1]
    /\ calls'[1] = "removeClick" /\ RemoveClick(i) =>
         items' = WithoutEntry(items, i)

\* C30: in every state (after the page load and after every operation of the
\* cart) the badge shows getTotalItems(), the empty-cart message is shown
\* exactly when the list is empty, the summary exactly when it is not, row i
\* shows entry i of the list, and a click on a control of row i acts on entry
\* i with the quantity it has at the click
C30_ViewMatchesModel == []ViewMatchesModel /\ [][RowControlsActOnTheirEntry]_vars

\* a cart of two entries after "+" was clicked on its second row
C30_Witness ==
  /\ calls[1] = "increaseClick"
  /\ Len(items) = 2
  /\ Len(cartRows) = 2
  /\ items[2].quantity = 2
  /\ cartRows[2].quantityDisplay = 2
  /\ cartCountText = <<"3">>

(***************************************************************************)
(* addItem and the entries it does not add.                                *)
(***************************************************************************)
\* C31: addItem of an item whose id no entry has leaves the entries as they
\* are and appends one entry of quantity 1 stamped with the current time;
\* addItem of an item whose id an entry has adds 1 to that entry's quantity
\* and changes nothing else: every entry keeps its position, name, price,
\* options and addedAt, also when the item handed in spells its name
\* differently or comes later
C31_AddItemKeepsOtherEntries ==
  [][\A item \in ClockItems :
       (calls'[1] = "call" /\ AddItem(item)) =>
         IF HasId(items, item.id)
         THEN /\ Len(items') = Len(items)
              /\ \A i \in DOMAIN items :
                   /\ [f \in DOMAIN items[i] \ {"quantity"} |-> items'[i][f]]
                        = [f \in DOMAIN items[i] \ {"quantity"} |-> items[i][f]]
                   /\ DOMAIN items'[i] = DOMAIN items[i]
                   /\ items'[i].quantity =
                        items[i].quantity + (IF items[i].id = item.id THEN 1 ELSE 0)
         ELSE /\ Len(items') = Len(items) + 1
              /\ SubSeq(items', 1, Len(items)) = items
              /\ items'[Len(items')].quantity = 1
              /\ items'[Len(items')].addedAt = now
              /\ items'[Len(items')].name = item.name]_vars

\* the entry first inserted at time 0 under the name "Ice Tea" was merged
\* at time 2 with a later click, after an entry was inserted behind it at
\* time 1
C31_Witness ==
  /\ calls = <<"call", "addItem", "saveCartToStorage">>
  /\ now = 2
  /\ Len(items) = 2
  /\ items[1].addedAt = 0
  /\ items[1].quantity = 2
  /\ items[1].name = MenuItems[2].name
  /\ items[2].addedAt = 1
  /\ storage = JSONStringify(items)

(***************************************************************************)
(* The customer details.                                                   *)
(***************************************************************************)
\* the field is empty once trimmed, or is a name or the phone number and does
\* not match its pattern once trimmed
DetailFails(key) ==
  LET value == Trim(fields[key].value) IN
  \/ Len(value) = 0
  \/ key \in {"lastName", "firstName"} /\ ~NamePatternTest(value)
  \/ key = "phone" /\ ~PhonePatternTest(value)

\* C32: a checkout of a cart that is not empty gets past
\* validateCheckoutDetails exactly when each of the six customer fields is
\* non-empty after trimming, both names match the name pattern and the phone
\* matches the phone pattern; after it a field carries checkout-error exactly
\* when it failed, whatever it carried before
C32_DetailsValidIff ==
  [][\A answer \in BOOLEAN :
       (calls'[1] = "checkoutClick" /\ Len(items) > 0 /\ CheckoutClick(answer)) =>
         /\ dialog'.alerts # <<"invalid">>
              <=> \A key \in CheckoutKeySet : ~DetailFails(key)
         /\ \A key \in CheckoutKeySet : fields'[key].error <=> DetailFails(key)]_vars

\* a checkout was refused for the phone number alone: the last name is valid
\* and no other field carries a mark
C32_Witness ==
  /\ dialog.alerts = <<"invalid">>
  /\ fields["phone"].error
  /\ fields["phone"].value = <<"0","7","8","1","2","3">>
  /\ fields["lastName"].value = <<"R","e","y">>
  /\ \A key \in CheckoutKeySet \ {"phone"} : ~fields[key].error

(***************************************************************************)
(* The limits of the option groups.                                        *)
(***************************************************************************)
\* the most buttons group g of card m may have selected: one when it is of
\* single selection, its data-max when it is of multiple selection
SelectionLimit(m, g) ==
  LET group == MenuOptionGroups[m][g] IN
  IF group.selectionType \in {"", "single"} THEN 1 ELSE DigitsValue(group.max, 0)

SelectionsWithinLimits ==
  \A m \in ButtonCards : \A g \in DOMAIN MenuOptionGroups[m] :
    Cardinality(menu[m].selected[g]) <= SelectionLimit(m, g)

\* what a click on button b of group g of card m does to the selections: a
\* selected button is deselected; an unselected button of a group of multiple
\* selection that is at its maximum leaves every selection and flags the
\* group; the buttons of the other groups stay as they are
ClickRespectsLimit(m, g, b) ==
  LET before == menu[m].selected[g]
      multiple == MenuOptionGroups[m][g].selectionType = "multiple"
  IN /\ \A other \in DOMAIN MenuOptionGroups[m] \ {g} :
          menu'[m].selected[other] = menu[m].selected[other]
     /\ b \in before => menu'[m].selected[g] = before \ {b}
     /\ b \notin before /\ multiple /\ Cardinality(before) >= SelectionLimit(m, g) =>
          /\ menu'[m].selected[g] = before
          /\ menu'[m].groupError[g]
     /\ b \notin before /\ ~multiple => menu'[m].selected[g] = {b}
     /\ b \notin before /\ multiple /\ Cardinality(before) < SelectionLimit(m, g) =>
          menu'[m].selected[g] = before \cup {b}

\* C33: on a page whose markup selects no option button, a group of single
\* selection never has more than one selected button and a group of multiple
\* selection never more than its data-max; a click on a selected button
\* deselects it, and a click that would exceed the maximum changes no
\* selection and flags the group
C33_SelectionsWithinLimits ==
  /\ []SelectionsWithinLimits
  /\ [][\A m \in ButtonCards, g \in 1 .. 2, b \in 1 .. 3 :
          (menu' # menu /\ OptionButtonClick(m, g, b)) => ClickRespectsLimit(m, g, b)]_vars

\* the group of at most two extras has two selected buttons and is flagged:
\* the click on the third was refused
C33_Witness ==
  /\ menu[7].selected[1] = {1, 3}
  /\ menu[7].groupError[1]
  /\ menu[7].hintError
  /\ menu[7].selected[2] = {2}

(***************************************************************************)
(* The panel of the cart.                                                  *)
(***************************************************************************)
\* toggleCart ran in the handler that led to the next state
Toggled == \E i \in DOMAIN calls' : calls'[i] = "toggleCart"

\* C34: after every addItem the panel is open and shown: addItem calls
\* toggleCart exactly when the panel was closed; and within a page load the
\* open flag changes only in a handler that ran toggleCart: the click on
\* cartToggle, addItem on a closed panel, the confirmed checkout on an open
\* panel
C34_AddItemOpensPanel ==
  [][/\ (calls'[1] = "call" /\ calls'[2] = "addItem" /\ fields' = fields) =>
          /\ isCartOpen'
          /\ cartContentDisplay' = "block"
          /\ Toggled <=> ~isCartOpen
     /\ (isCartOpen' # isCartOpen /\ calls'[1] # "load") =>
          /\ Toggled
          /\ \/ calls'[1] = "cartToggleClick"
             \/ calls'[2] = "addItem" /\ ~isCartOpen
             \/ /\ calls'[1] = "checkoutClick"
                /\ dialog'.alerts = <<"confirmed">>
                /\ isCartOpen]_vars

\* addItem on the open panel of a cart with one entry: toggleCart was not
\* called and the panel is still open
C34_Witness ==
  /\ calls = <<"call", "addItem", "saveCartToStorage">>
  /\ isCartOpen
  /\ cartContentDisplay = "block"
  /\ Len(items) = 2
  /\ getTotalItems(items) = 2

(***************************************************************************)
(* Feedback that ends by itself.                                           *)
(***************************************************************************)
\* the button of card m is as the markup has it
ButtonAtRest(m) ==
  addButtons[m] = [text |-> ButtonLabel, disabled |-> FALSE, adding |-> FALSE]

\* every button whose timer is pending is disabled and shows the added label
FeedbackShownUntilTimeout ==
  \A timer \in timers :
    /\ addButtons[timer.button].disabled
    /\ addButtons[timer.button].text = AddedLabel

\* with no timer pending, every button is at rest and no element carries
\* cart-bounce
QuietWhenTimersFired ==
  (timers = {} /\ bounce.pending = {}) =>
    /\ \A m \in DOMAIN MenuItems : ButtonAtRest(m)
    /\ bounce.marked = {}

====
